---- MODULE Spec2Model ----
(***************************************************************************)
(* State-machine model of the REST backend of the legal case management    *)
(* system: the invoice, appointment, case, client, task, notification,    *)
(* team-member and register/login route handlers, the authentication      *)
(* middleware, the parts of the document schemas they rely on, the server  *)
(* startup, and the useClients hook of the front end.                      *)
(*                                                                         *)
(* The create-invoice, record-payment, create-case, create-client,        *)
(* hard-delete-client and the team-member update and delete handlers are   *)
(* split at their awaits: every await is one atomic database operation,    *)
(* and other requests may run between two awaits of the same handler.      *)
(* The other handlers are one step each.                                   *)
(***************************************************************************)
EXTENDS Integers, Sequences, FiniteSets, TLC

VARIABLES invoices, nextInvoiceId, appointments, nextAppointmentId, cases,
          clients, nextClientId, notifications, tasks, nextTaskId,
          users, nextUserId, pc, loc, resp, boot,
          teamMembers, nextMemberId, files, nextFile,
          hookClients, serverList, nextServerId, calls, rollbacks, started

vars == <<invoices, nextInvoiceId, appointments, nextAppointmentId, cases,
          clients, nextClientId, notifications, tasks, nextTaskId,
          users, nextUserId, pc, loc, resp, boot,
          teamMembers, nextMemberId, files, nextFile,
          hookClients, serverList, nextServerId, calls, rollbacks, started>>

invoiceVars == <<invoices, nextInvoiceId>>
appointmentVars == <<appointments, nextAppointmentId>>
caseVars == <<cases>>
clientVars == <<clients, nextClientId, notifications>>
taskVars == <<tasks, nextTaskId>>
userVars == <<users, nextUserId>>
teamVars == <<teamMembers, nextMemberId, files, nextFile>>
hookVars == <<hookClients, serverList, nextServerId, calls, rollbacks, started>>
auxVars == <<boot, teamVars, hookVars>>

(***************************************************************************)
(* Bounds of the model.                                                    *)
(***************************************************************************)
MaxInvoices == 1
MaxConcInvoices == 2
MaxPaid == 3

\* Requests in flight: one worker is a run without concurrent requests.
SeqWorkers == {"w1"}
ConcWorkers == {"w1", "w2"}
Workers == ConcWorkers

(***************************************************************************)
(* JSON values of a request body and the JavaScript conversions the        *)
(* handlers apply to them.  A JS number is [nan, v]; a string is a         *)
(* sequence of one-character strings.                                      *)
(***************************************************************************)
Undefined == [k |-> "undefined"]
JNum(n) == [k |-> "number", n |-> n]
JStr(s) == [k |-> "string", s |-> s]
JBool(b) == [k |-> "boolean", b |-> b]

NaN == [nan |-> TRUE, v |-> 0]
Number(n) == [nan |-> FALSE, v |-> n]

DigitChars == <<"0", "1", "2", "3", "4", "5", "6", "7", "8", "9">>
HexChars == DigitChars \o <<"a", "b", "c", "d", "e", "f">>

IsDigit(c) == \E i \in 1..Len(DigitChars) : DigitChars[i] = c
IsHexDigit(c) == \E i \in 1..Len(HexChars) : HexChars[i] = c
HexVal(c) == (CHOOSE i \in 1..Len(HexChars) : HexChars[i] = c) - 1

IsSpace(c) == c = " "

\* String.prototype.trim: strips leading and trailing white space
RECURSIVE TrimLeft(_)
TrimLeft(s) ==
  IF s # <<>> /\ IsSpace(Head(s)) THEN TrimLeft(Tail(s)) ELSE s

RECURSIVE TrimRight(_)
TrimRight(s) ==
  IF s # <<>> /\ IsSpace(s[Len(s)])
    THEN TrimRight(SubSeq(s, 1, Len(s) - 1))
    ELSE s

Trim(s) == TrimRight(TrimLeft(s))

\* value of the digit string s read in the given base
RECURSIVE BaseValue(_, _)
BaseValue(s, base) ==
  IF s = <<>> THEN 0
  ELSE BaseValue(SubSeq(s, 1, Len(s) - 1), base) * base + HexVal(s[Len(s)])

AllDigits(s) == s # <<>> /\ \A i \in 1..Len(s) : IsDigit(s[i])
AllHexDigits(s) == s # <<>> /\ \A i \in 1..Len(s) : IsHexDigit(s[i])

\* length of the longest prefix of s made of decimal digits
RECURSIVE DigitPrefixLen(_)
DigitPrefixLen(s) ==
  IF s # <<>> /\ IsDigit(Head(s)) THEN 1 + DigitPrefixLen(Tail(s)) ELSE 0

\* ToNumber on a string (StringToNumber): the whole trimmed string must be
\* a numeric literal; the empty string is 0, a 0x literal is read in base 16
StringToNumber(s) ==
  LET t == Trim(s) IN
  IF t = <<>> THEN Number(0)
  ELSE IF AllDigits(t) THEN Number(BaseValue(t, 10))
  ELSE IF Head(t) = "-" /\ AllDigits(Tail(t))
    THEN Number(0 - BaseValue(Tail(t), 10))
  ELSE IF Len(t) > 2 /\ t[1] = "0" /\ t[2] = "x" /\ AllHexDigits(SubSeq(t, 3, Len(t)))
    THEN Number(BaseValue(SubSeq(t, 3, Len(t)), 16))
  ELSE NaN

\* ToNumber: the coercion behind isNaN(x), Number(x) and x <= 0
ToNumber(x) ==
  CASE x.k = "undefined" -> NaN
    [] x.k = "number" -> Number(x.n)
    [] x.k = "boolean" -> Number(IF x.b THEN 1 ELSE 0)
    [] x.k = "string" -> StringToNumber(x.s)

\* parseFloat on a string: the longest decimal prefix after leading white
\* space, NaN when there is none
ParseFloatString(s) ==
  LET t == TrimLeft(s)
      neg == t # <<>> /\ Head(t) = "-"
      u == IF neg THEN Tail(t) ELSE t
      n == DigitPrefixLen(u)
  IN IF n = 0 THEN NaN
     ELSE Number((IF neg THEN -1 ELSE 1) * BaseValue(SubSeq(u, 1, n), 10))

\* parseFloat(x): x is converted to a string first
ParseFloat(x) ==
  CASE x.k = "undefined" -> NaN
    [] x.k = "number" -> Number(x.n)
    [] x.k = "boolean" -> NaN
    [] x.k = "string" -> ParseFloatString(x.s)

\* !x
Falsy(x) ==
  CASE x.k = "undefined" -> TRUE
    [] x.k = "number" -> x.n = 0
    [] x.k = "boolean" -> ~x.b
    [] x.k = "string" -> x.s = <<>>

IsNaN(x) == ToNumber(x).nan

\* x <= 0 and x < 0: a comparison with NaN is false
LeqZero(x) == ~ToNumber(x).nan /\ ToNumber(x).v <= 0
LtZero(x) == ~ToNumber(x).nan /\ ToNumber(x).v < 0

\* a + b on JS numbers
JsAdd(a, b) == IF a.nan \/ b.nan THEN NaN ELSE Number(a.v + b.v)


(***************************************************************************)
(* Responses and handler-local state.                                      *)
(***************************************************************************)
Null == [k |-> "null"]

NoResp == [route |-> "none", code |-> 0, doc |-> Null, errors |-> {}]
Resp(route, code, doc) == [route |-> route, code |-> code, doc |-> doc, errors |-> {}]

NoLoc == [id |-> 0, amount |-> Undefined, paid |-> 0, total |-> 0, count |-> 0,
          user |-> "", notify |-> FALSE, clientId |-> 0,
          image |-> 0, file |-> 0, email |-> ""]

(***************************************************************************)
(* Server startup (index.js): connectDB and startServer.                   *)
(***************************************************************************)
\* connectDB(retries = 5)
Retries == 5

\* the process before the first connection attempt: i is the loop index,
\* failed the attempts that threw, waits the delays slept
Booting == [pc |-> "connecting", i |-> 0, failed |-> 0, waits |-> 0,
            connected |-> FALSE, sessions |-> FALSE, exit |-> 0]

(***************************************************************************)
(* The calls of the useClients hook (src/hooks/useClients.ts) that are in  *)
(* flight.                                                                 *)
(***************************************************************************)
Calls == {"c1", "c2"}

NoCall == [op |-> "none", phase |-> "idle", id |-> 0, v |-> 0, ok |-> FALSE,
           list |-> <<>>, rollback |-> FALSE]

(***************************************************************************)
(* Invoice model (models/Invoice.js).                                      *)
(***************************************************************************)
InvoiceStatusEnum == {"Paid", "Partially Paid", "Unpaid", "Overdue"}

\* String(n): the decimal digits of a natural number
RECURSIVE ToDigits(_)
ToDigits(n) ==
  IF n < 10 THEN <<DigitChars[n + 1]>>
  ELSE ToDigits(n \div 10) \o <<DigitChars[(n % 10) + 1]>>

\* String.prototype.padStart(width, ch)
RECURSIVE PadStart(_, _, _)
PadStart(s, width, ch) ==
  IF Len(s) >= width THEN s ELSE PadStart(<<ch>> \o s, width, ch)

InvoiceNoWidth == 6

\* `INV-${String(count + 1).padStart(6, '0')}`
InvoiceNo(count) ==
  <<"I", "N", "V", "-">> \o PadStart(ToDigits(count + 1), InvoiceNoWidth, "0")

\* the balanceDue virtual
BalanceDueBroken(doc) == doc.total

BalanceDue(doc) == doc.total - doc.paid

\* toJSON with virtuals: the document as a response reports it
InvoiceJSON(id, doc) ==
  [id |-> id, invoiceNo |-> doc.invoiceNo, total |-> doc.total, paid |-> doc.paid,
   status |-> doc.status, clientStatus |-> doc.clientStatus,
   balanceDue |-> BalanceDue(doc)]

\* the unique index on invoiceNo
InvoiceNoTakenBroken(no) == FALSE

InvoiceNoTaken(no) == \E i \in DOMAIN invoices : invoices[i].invoiceNo = no

\* schema validators of the numeric paths (min: 0) and of status (enum)
InvoiceTotalValid(x) == x.k = "undefined" \/ (x.k = "number" /\ x.n >= 0)
InvoicePaidValid(x) == x.k = "undefined" \/ (x.k = "number" /\ x.n >= 0)
InvoiceStatusValid(s) == s = "" \/ s \in InvoiceStatusEnum

(***************************************************************************)
(* POST /api/invoices                                                      *)
(***************************************************************************)
\* clientId is the id of a client, 0 when the body has none
InvoiceBody(total) ==
  [clientId |-> 1, clientName |-> TRUE, issueDateValid |-> TRUE,
   dueDateValid |-> TRUE, items |-> "ok", subtotal |-> JNum(1), total |-> total]

ItemDefects == {"none", "noDescription", "badQuantity", "badRate", "badAmount"}

InvoiceTotals == {JNum(1), JNum(2), JStr(<<"2">>)}

InvoiceBodies ==
  {InvoiceBody(t) : t \in InvoiceTotals \cup {JNum(-1), Undefined}}
  \cup {[InvoiceBody(JNum(1)) EXCEPT !.clientId = 0],
        [InvoiceBody(JNum(1)) EXCEPT !.clientName = FALSE],
        [InvoiceBody(JNum(1)) EXCEPT !.issueDateValid = FALSE],
        [InvoiceBody(JNum(1)) EXCEPT !.dueDateValid = FALSE],
        [InvoiceBody(JNum(1)) EXCEPT !.subtotal = JNum(-1)]}
  \cup {[InvoiceBody(JNum(1)) EXCEPT !.items = d] : d \in ItemDefects}

\* the first failing check of the create handler, "" when the body passes
InvoiceBodyError(body) ==
  IF body.clientId = 0 THEN "Client ID is required"
  ELSE IF ~body.clientName THEN "Client name is required"
  ELSE IF ~body.issueDateValid THEN "Invalid issue date format"
  ELSE IF ~body.dueDateValid THEN "Invalid due date format"
  ELSE IF body.items = "none" THEN "At least one invoice item is required"
  ELSE IF body.items = "noDescription" THEN "Item description is required"
  ELSE IF body.items = "badQuantity" THEN "Item quantity must be a positive number"
  ELSE IF body.items = "badRate" THEN "Item rate must be a non-negative number"
  ELSE IF body.items = "badAmount" THEN "Item amount must be a non-negative number"
  ELSE IF IsNaN(body.subtotal) \/ LtZero(body.subtotal)
    THEN "Subtotal must be a non-negative number"
  ELSE IF IsNaN(body.total) \/ LtZero(body.total)
    THEN "Total must be a non-negative number"
  ELSE ""

CreatingInvoice == {w \in Workers : pc[w] = "createInvoice"}

\* validation and the countDocuments() await
CreateInvoiceCount(w, body, cap) ==
  /\ pc[w] = "idle"
  /\ nextInvoiceId + Cardinality(CreatingInvoice) <= cap
  /\ IF InvoiceBodyError(body) # ""
       THEN /\ resp' = [resp EXCEPT ![w] = Resp("createInvoice", 400, Null)]
            /\ UNCHANGED <<pc, loc>>
       ELSE /\ pc' = [pc EXCEPT ![w] = "createInvoice"]
            /\ loc' = [loc EXCEPT ![w] = [NoLoc EXCEPT
                         !.count = Cardinality(DOMAIN invoices),
                         !.total = ToNumber(body.total).v,
                         !.clientId = body.clientId]]
            /\ resp' = [resp EXCEPT ![w] = NoResp]
  /\ UNCHANGED <<auxVars, taskVars, userVars, invoiceVars, appointmentVars, caseVars, clientVars>>

\* new Invoice(newInvoiceData).save() and the response
CreateInvoiceSave(w) ==
  /\ pc[w] = "createInvoice"
  /\ LET no == InvoiceNo(loc[w].count)
         doc == [invoiceNo |-> no, clientId |-> loc[w].clientId,
                 total |-> loc[w].total, paid |-> 0,
                 status |-> "Unpaid", clientStatus |-> "Not Viewed"]
     IN IF InvoiceNoTaken(no)
          THEN /\ resp' = [resp EXCEPT ![w] = Resp("createInvoice", 400, Null)]
               /\ UNCHANGED <<invoices, nextInvoiceId>>
          ELSE /\ invoices' = [i \in DOMAIN invoices \cup {nextInvoiceId} |->
                                 IF i = nextInvoiceId THEN doc ELSE invoices[i]]
               /\ nextInvoiceId' = nextInvoiceId + 1
               /\ resp' = [resp EXCEPT ![w] =
                             Resp("createInvoice", 201, InvoiceJSON(nextInvoiceId, doc))]
  /\ pc' = [pc EXCEPT ![w] = "idle"]
  /\ loc' = [loc EXCEPT ![w] = NoLoc]
  /\ UNCHANGED <<auxVars, taskVars, userVars, appointmentVars, caseVars, clientVars>>


(***************************************************************************)
(* PUT /api/invoices/:id  (findByIdAndUpdate with runValidators)           *)
(***************************************************************************)
PutTotals == {Undefined, JNum(-1), JNum(1)}
PutPaids == {Undefined, JNum(-1), JNum(2)}
PutStatuses == {"", "Overdue", "Unpaid", "Archived"}

\* bodies that carry one of the paths, or all three
PutBodies ==
  {[total |-> t, paid |-> Undefined, status |-> ""] : t \in PutTotals}
  \cup {[total |-> Undefined, paid |-> x, status |-> ""] : x \in PutPaids}
  \cup {[total |-> Undefined, paid |-> Undefined, status |-> st] : st \in PutStatuses}
  \cup {[total |-> JNum(1), paid |-> JNum(2), status |-> "Overdue"]}

PutBodyValid(body) ==
  /\ InvoiceTotalValid(body.total)
  /\ InvoicePaidValid(body.paid)
  /\ InvoiceStatusValid(body.status)

\* $set of the paths the body carries
ApplyInvoiceUpdate(doc, body) ==
  [doc EXCEPT !.total = IF body.total.k = "undefined" THEN @ ELSE body.total.n,
              !.paid = IF body.paid.k = "undefined" THEN @ ELSE body.paid.n,
              !.status = IF body.status = "" THEN @ ELSE body.status]

PutInvoice(w, id, body) ==
  /\ pc[w] = "idle"
  /\ IF ~PutBodyValid(body)
       THEN /\ resp' = [resp EXCEPT ![w] = Resp("putInvoice", 400, Null)]
            /\ UNCHANGED invoices
       ELSE IF id \notin DOMAIN invoices
       THEN /\ resp' = [resp EXCEPT ![w] = Resp("putInvoice", 404, Null)]
            /\ UNCHANGED invoices
       ELSE LET doc == ApplyInvoiceUpdate(invoices[id], body) IN
            /\ invoices' = [invoices EXCEPT ![id] = doc]
            /\ resp' = [resp EXCEPT ![w] = Resp("putInvoice", 200, InvoiceJSON(id, doc))]
  /\ UNCHANGED <<auxVars, taskVars, userVars, nextInvoiceId, appointmentVars, caseVars, clientVars, pc, loc>>

(***************************************************************************)
(* DELETE /api/invoices/:id                                                *)
(***************************************************************************)
DeleteInvoice(w, id) ==
  /\ pc[w] = "idle"
  /\ IF id \notin DOMAIN invoices
       THEN /\ resp' = [resp EXCEPT ![w] = Resp("deleteInvoice", 404, Null)]
            /\ UNCHANGED invoices
       ELSE /\ invoices' = [i \in DOMAIN invoices \ {id} |-> invoices[i]]
            /\ resp' = [resp EXCEPT ![w] = Resp("deleteInvoice", 200, Null)]
  /\ UNCHANGED <<auxVars, taskVars, userVars, nextInvoiceId, appointmentVars, caseVars, clientVars, pc, loc>>

(***************************************************************************)
(* PATCH /api/invoices/:id/status  (findByIdAndUpdate, no validators)      *)
(***************************************************************************)
PatchStatuses == {"", "Paid", "Partially Paid", "Unpaid", "Overdue", "Archived"}

\* what findByIdAndUpdate(id, { status }, { new: true }) stores
PatchedStatus(old, status) == status

SetInvoiceStatus(w, id, status) ==
  /\ pc[w] = "idle"
  /\ IF status = ""
       THEN /\ resp' = [resp EXCEPT ![w] = Resp("setInvoiceStatus", 400, Null)]
            /\ UNCHANGED invoices
       ELSE IF id \notin DOMAIN invoices
       THEN /\ resp' = [resp EXCEPT ![w] = Resp("setInvoiceStatus", 404, Null)]
            /\ UNCHANGED invoices
       ELSE LET doc == [invoices[id] EXCEPT !.status = PatchedStatus(@, status)] IN
            /\ invoices' = [invoices EXCEPT ![id] = doc]
            /\ resp' = [resp EXCEPT ![w] =
                          Resp("setInvoiceStatus", 200, InvoiceJSON(id, doc))]
  /\ UNCHANGED <<auxVars, taskVars, userVars, nextInvoiceId, appointmentVars, caseVars, clientVars, pc, loc>>

(***************************************************************************)
(* PATCH /api/invoices/:id/mark-viewed                                     *)
(***************************************************************************)
MarkInvoiceViewed(w, id) ==
  /\ pc[w] = "idle"
  /\ IF id \notin DOMAIN invoices
       THEN /\ resp' = [resp EXCEPT ![w] = Resp("markViewed", 404, Null)]
            /\ UNCHANGED invoices
       ELSE LET doc == [invoices[id] EXCEPT !.clientStatus = "Viewed"] IN
            /\ invoices' = [invoices EXCEPT ![id] = doc]
            /\ resp' = [resp EXCEPT ![w] = Resp("markViewed", 200, InvoiceJSON(id, doc))]
  /\ UNCHANGED <<auxVars, taskVars, userVars, nextInvoiceId, appointmentVars, caseVars, clientVars, pc, loc>>

(***************************************************************************)
(* POST /api/invoices/:id/payments                                         *)
(***************************************************************************)
PaymentAmounts ==
  {Undefined, JNum(-1), JNum(0), JNum(1), JNum(2),
   JStr(<<>>), JStr(<<"0">>), JStr(<<"2">>), JStr(<<"2", "a">>), JStr(<<"a">>),
   JStr(<<"0", "x", "2">>), JBool(TRUE)}

\* !amount || isNaN(amount) || amount <= 0
InvalidAmountNoSign(amount) == Falsy(amount) \/ IsNaN(amount)

InvalidAmount(amount) == Falsy(amount) \/ IsNaN(amount) \/ LeqZero(amount)

\* the status the handler derives from the new paid amount
PaymentStatusStrict(newPaid, total) ==
  IF ~newPaid.nan /\ newPaid.v > total THEN "Paid"
  ELSE IF ~newPaid.nan /\ newPaid.v > 0 THEN "Partially Paid"
  ELSE "Unpaid"

PaymentStatusOverdue(newPaid, total) ==
  IF ~newPaid.nan /\ newPaid.v >= total THEN "Paid"
  ELSE IF ~newPaid.nan /\ newPaid.v > 0 THEN "Partially Paid"
  ELSE "Overdue"

PaymentStatus(newPaid, total) ==
  IF ~newPaid.nan /\ newPaid.v >= total THEN "Paid"
  ELSE IF ~newPaid.nan /\ newPaid.v > 0 THEN "Partially Paid"
  ELSE "Unpaid"

\* invoice.paid + parseFloat(amount)
NewPaidAmount(paid, amount) == JsAdd(Number(paid), ParseFloat(amount))

\* validation and the findById() await
RecordPaymentRead(w, id, amount) ==
  /\ pc[w] = "idle"
  /\ IF InvalidAmount(amount)
       THEN /\ resp' = [resp EXCEPT ![w] = Resp("recordPayment", 400, Null)]
            /\ UNCHANGED <<pc, loc>>
       ELSE IF id \notin DOMAIN invoices
       THEN /\ resp' = [resp EXCEPT ![w] = Resp("recordPayment", 404, Null)]
            /\ UNCHANGED <<pc, loc>>
       ELSE /\ NewPaidAmount(invoices[id].paid, amount).v <= MaxPaid
            /\ pc' = [pc EXCEPT ![w] = "recordPayment"]
            /\ loc' = [loc EXCEPT ![w] = [NoLoc EXCEPT
                         !.id = id, !.amount = amount,
                         !.paid = invoices[id].paid, !.total = invoices[id].total]]
            /\ resp' = [resp EXCEPT ![w] = NoResp]
  /\ UNCHANGED <<auxVars, taskVars, userVars, invoiceVars, appointmentVars, caseVars, clientVars>>

\* the status computation and the findByIdAndUpdate() await
RecordPaymentWrite(w) ==
  /\ pc[w] = "recordPayment"
  /\ LET id == loc[w].id
         newPaidAmount == NewPaidAmount(loc[w].paid, loc[w].amount)
         status == PaymentStatus(newPaidAmount, loc[w].total)
     IN IF newPaidAmount.nan
          \* a NaN does not cast to the Number path: CastError, caught
          THEN /\ resp' = [resp EXCEPT ![w] = Resp("recordPayment", 400, Null)]
               /\ UNCHANGED invoices
          ELSE IF id \notin DOMAIN invoices
          \* deleted since the read: the update matches nothing, null is sent
          THEN /\ resp' = [resp EXCEPT ![w] = Resp("recordPayment", 200, Null)]
               /\ UNCHANGED invoices
          ELSE LET doc == [invoices[id] EXCEPT !.paid = newPaidAmount.v,
                                              !.status = status] IN
               /\ invoices' = [invoices EXCEPT ![id] = doc]
               /\ resp' = [resp EXCEPT ![w] =
                             Resp("recordPayment", 200, InvoiceJSON(id, doc))]
  /\ pc' = [pc EXCEPT ![w] = "idle"]
  /\ loc' = [loc EXCEPT ![w] = NoLoc]
  /\ UNCHANGED <<auxVars, taskVars, userVars, nextInvoiceId, appointmentVars, caseVars, clientVars>>


(***************************************************************************)
(* Appointments (models/Appointment.js, routes/appointments.js).           *)
(***************************************************************************)
MaxAppointments == 2

AppointmentStatusEnum == {"Scheduled", "Completed", "Cancelled", "Rescheduled"}

AppointmentStatusValid(s) == s = "" \/ s \in AppointmentStatusEnum

AppointmentStatuses == {"", "Completed", "Cancelled", "Archived"}

\* a body with or without its required fields, and an optional status
AppointmentBodies == [required : BOOLEAN, status : AppointmentStatuses, clientId : {1}]

\* POST /api/appointments: save() validates the document
CreateAppointment(w, body) ==
  /\ pc[w] = "idle"
  /\ nextAppointmentId <= MaxAppointments
  /\ IF ~body.required \/ ~AppointmentStatusValid(body.status)
       THEN /\ resp' = [resp EXCEPT ![w] = Resp("createAppointment", 400, Null)]
            /\ UNCHANGED appointmentVars
       ELSE LET doc == [clientId |-> body.clientId,
                        status |-> IF body.status = "" THEN "Scheduled" ELSE body.status]
            IN /\ appointments' = [i \in DOMAIN appointments \cup {nextAppointmentId} |->
                                     IF i = nextAppointmentId THEN doc ELSE appointments[i]]
               /\ nextAppointmentId' = nextAppointmentId + 1
               /\ resp' = [resp EXCEPT ![w] = Resp("createAppointment", 201, doc)]
  /\ UNCHANGED <<auxVars, taskVars, userVars, invoiceVars, caseVars, clientVars, pc, loc>>

\* PUT /api/appointments/:id: findByIdAndUpdate with runValidators
PutAppointment(w, id, body) ==
  /\ pc[w] = "idle"
  /\ IF ~AppointmentStatusValid(body.status)
       THEN /\ resp' = [resp EXCEPT ![w] = Resp("putAppointment", 400, Null)]
            /\ UNCHANGED appointments
       ELSE IF id \notin DOMAIN appointments
       THEN /\ resp' = [resp EXCEPT ![w] = Resp("putAppointment", 404, Null)]
            /\ UNCHANGED appointments
       ELSE LET doc == [appointments[id] EXCEPT
                          !.status = IF body.status = "" THEN @ ELSE body.status]
            IN /\ appointments' = [appointments EXCEPT ![id] = doc]
               /\ resp' = [resp EXCEPT ![w] = Resp("putAppointment", 200, doc)]
  /\ UNCHANGED <<auxVars, taskVars, userVars, invoiceVars, nextAppointmentId, caseVars, clientVars, pc, loc>>

\* DELETE /api/appointments/:id
DeleteAppointment(w, id) ==
  /\ pc[w] = "idle"
  /\ IF id \notin DOMAIN appointments
       THEN /\ resp' = [resp EXCEPT ![w] = Resp("deleteAppointment", 404, Null)]
            /\ UNCHANGED appointments
       ELSE /\ appointments' = [i \in DOMAIN appointments \ {id} |-> appointments[i]]
            /\ resp' = [resp EXCEPT ![w] = Resp("deleteAppointment", 200, Null)]
  /\ UNCHANGED <<auxVars, taskVars, userVars, invoiceVars, nextAppointmentId, caseVars, clientVars, pc, loc>>

\* PATCH /api/appointments/:id/status: findByIdAndUpdate, no validators
SetAppointmentStatus(w, id, status) ==
  /\ pc[w] = "idle"
  /\ IF status = ""
       THEN /\ resp' = [resp EXCEPT ![w] = Resp("setAppointmentStatus", 400, Null)]
            /\ UNCHANGED appointments
       ELSE IF id \notin DOMAIN appointments
       THEN /\ resp' = [resp EXCEPT ![w] = Resp("setAppointmentStatus", 404, Null)]
            /\ UNCHANGED appointments
       ELSE LET doc == [appointments[id] EXCEPT !.status = status]
            IN /\ appointments' = [appointments EXCEPT ![id] = doc]
               /\ resp' = [resp EXCEPT ![w] = Resp("setAppointmentStatus", 200, doc)]
  /\ UNCHANGED <<auxVars, taskVars, userVars, invoiceVars, nextAppointmentId, caseVars, clientVars, pc, loc>>


(***************************************************************************)
(* Cases (models/Case.js, routes/cases.js).                                *)
(***************************************************************************)
MaxCases == 1

Users == {"u1", "u2"}

CaseFields == {"clientName", "clientNo", "caseType", "court", "petitioner", "respondent"}

CaseStatusEnum == {"Pending", "On-Trial", "Completed", "Dismissed"}
CaseStatuses == {"", "On-Trial", "Archived"}

\* the values a blank field takes in a request
BlankValues == {Undefined, JStr(<<>>), JStr(<<" ">>)}

ClientNos == {JStr(<<"A">>), JStr(<<" ", "B">>)}

CaseBody(blank, value, no) ==
  [f \in CaseFields |->
     IF f \in blank THEN value ELSE IF f = "clientNo" THEN no ELSE JStr(<<"A", " ">>)]

\* bodies with every set of blank fields, and bodies with a field that is
\* no string
BlankSets ==
  SUBSET {"clientName", "clientNo", "respondent"}
  \cup {{f} : f \in CaseFields} \cup {CaseFields}

CaseBodies ==
  {CaseBody(b, v, no) : b \in BlankSets, v \in BlankValues, no \in ClientNos}
  \cup {[CaseBody(b, Undefined, JStr(<<"A">>)) EXCEPT !["court"] = JNum(7)] :
          b \in {{}, {"clientName"}}}

DirectBodies ==
  {CaseBody(b, v, no) : b \in SUBSET {"clientName", "clientNo"},
                        v \in BlankValues, no \in ClientNos}

\* Date.now() of a request
Times == {1, 2}

\* data.field?.trim() on a value that is neither nullish nor a string
\* throws a TypeError
ValidateThrows(data) == \E f \in CaseFields : data[f].k \in {"number", "boolean"}

\* !data.field?.trim()
FieldBlank(x) == x.k = "undefined" \/ (x.k = "string" /\ Trim(x.s) = <<>>)

\* validateCaseData: the keys of the error map ({} stands for null)
ValidateCaseData(data) == {f \in CaseFields : FieldBlank(data[f])}

\* the cast of a value to a String path
CastString(x) ==
  CASE x.k = "string" -> x.s
    [] x.k = "number" -> ToDigits(x.n)
    [] x.k = "boolean" -> IF x.b THEN <<"t", "r", "u", "e">> ELSE <<"f", "a", "l", "s", "e">>

\* the unique index on clientNo
ClientNoTaken(no) == \E i \in DOMAIN cases : cases[i].clientNo = no

CaseDoc(data, status, user, timeline) ==
  [clientName |-> CastString(data["clientName"]),
   clientNo |-> CastString(data["clientNo"]),
   caseType |-> CastString(data["caseType"]),
   court |-> CastString(data["court"]),
   petitioner |-> CastString(data["petitioner"]),
   respondent |-> CastString(data["respondent"]),
   status |-> IF status = "" THEN "Pending" ELSE status,
   createdBy |-> user, timeline |-> timeline, notes |-> <<>>]

InsertCase(doc) ==
  cases' = [i \in DOMAIN cases \cup {Cardinality(DOMAIN cases) + 1} |->
              IF i \in DOMAIN cases THEN cases[i] ELSE doc]

CaseRoutes == {"createCase", "createCaseSimple"}

\* POST /api/cases and /api/cases/simple up to the first save()
CreateCaseSave(w, route, user, body, status) ==
  /\ pc[w] = "idle"
  /\ IF ValidateThrows(body)
       THEN /\ resp' = [resp EXCEPT ![w] = Resp(route, 400, Null)]
            /\ UNCHANGED <<cases, pc, loc>>
       ELSE IF ValidateCaseData(body) # {}
       THEN /\ resp' = [resp EXCEPT ![w] =
                          [Resp(route, 422, Null) EXCEPT !.errors = ValidateCaseData(body)]]
            /\ UNCHANGED <<cases, pc, loc>>
       ELSE IF status \notin CaseStatusEnum \cup {""}
                 \/ ClientNoTaken(CastString(body["clientNo"]))
       THEN /\ resp' = [resp EXCEPT ![w] = Resp(route, 400, Null)]
            /\ UNCHANGED <<cases, pc, loc>>
       ELSE /\ Cardinality(DOMAIN cases) < MaxCases
            /\ InsertCase(CaseDoc(body, status, user, <<>>))
            /\ pc' = [pc EXCEPT ![w] = route]
            /\ loc' = [loc EXCEPT ![w] = [NoLoc EXCEPT
                         !.id = Cardinality(DOMAIN cases) + 1, !.user = user]]
            /\ resp' = [resp EXCEPT ![w] = NoResp]
  /\ UNCHANGED <<auxVars, taskVars, userVars, invoiceVars, appointmentVars, clientVars>>

TimelineEntry(description, user) == [description |-> description, addedBy |-> user]

\* the response without the second save()
CreateCaseRespondEarly(w) ==
  /\ pc[w] \in CaseRoutes
  /\ resp' = [resp EXCEPT ![w] = Resp(pc[w], 201, cases[loc[w].id])]
  /\ pc' = [pc EXCEPT ![w] = "idle"]
  /\ loc' = [loc EXCEPT ![w] = NoLoc]
  /\ UNCHANGED <<auxVars, taskVars, userVars, invoiceVars, appointmentVars, caseVars, clientVars>>

\* the second save(), which stores the timeline, and the response
CreateCaseTimeline(w) ==
  /\ pc[w] \in CaseRoutes
  /\ LET id == loc[w].id
         entry == TimelineEntry("Case created", loc[w].user)
         doc == [cases[id] EXCEPT !.timeline =
                   IF pc[w] = "createCase" THEN Append(@, entry) ELSE <<entry>>]
     IN /\ cases' = [cases EXCEPT ![id] = doc]
        /\ resp' = [resp EXCEPT ![w] = Resp(pc[w], 201, doc)]
  /\ pc' = [pc EXCEPT ![w] = "idle"]
  /\ loc' = [loc EXCEPT ![w] = NoLoc]
  /\ UNCHANGED <<auxVars, taskVars, userVars, invoiceVars, appointmentVars, clientVars>>

DirectDefault(f, now) ==
  CASE f = "clientNo" -> <<"D", "I", "R", "E", "C", "T", "-">> \o ToDigits(now)
    [] f = "clientName" -> <<"D", "i", "r", "e", "c", "t", " ", "T", "e", "s", "t">>
    [] f = "caseType" -> <<"T", "e", "s", "t", " ", "C", "a", "s", "e">>
    [] f = "court" -> <<"T", "e", "s", "t", " ", "C", "o", "u", "r", "t">>
    [] f = "petitioner" -> <<"T", "e", "s", "t", " ", "P", "e", "t">>
    [] f = "respondent" -> <<"T", "e", "s", "t", " ", "R", "e", "s", "p">>

\* req.body.field || default
DirectCase(body, now) ==
  [f \in CaseFields |-> IF Falsy(body[f]) THEN JStr(DirectDefault(f, now)) ELSE body[f]]

\* POST /api/cases/direct: no validation, Case.create()
CreateCaseDirect(w, user, body, now) ==
  /\ pc[w] = "idle"
  /\ LET data == DirectCase(body, now)
         doc == CaseDoc(data, "Pending", user,
                        <<TimelineEntry("Case created directly", user)>>)
     IN IF ClientNoTaken(doc.clientNo)
          THEN /\ resp' = [resp EXCEPT ![w] = Resp("createCaseDirect", 400, Null)]
               /\ UNCHANGED cases
          ELSE /\ Cardinality(DOMAIN cases) < MaxCases
               /\ InsertCase(doc)
               /\ resp' = [resp EXCEPT ![w] = Resp("createCaseDirect", 201, doc)]
  /\ UNCHANGED <<auxVars, taskVars, userVars, invoiceVars, appointmentVars, clientVars, pc, loc>>


(***************************************************************************)
(* Clients (routes/clients.js, utils/notifications.js).                    *)
(***************************************************************************)
MaxClients == 2
MaxUsers == 2

Emails == {"a@firm.example", "b@firm.example"}

\* the unique index on the client email
EmailTaken(email, except) ==
  \E i \in DOMAIN clients \ {except} : clients[i].email = email

\* the error of a failed save(): a duplicate key has code 11000
SaveClientError(email, except) == IF EmailTaken(email, except) THEN 11000 ELSE 0

\* the status the catch block of POST /api/clients answers with
CreateClientErrorStatusGeneric(code) == 400

CreateClientErrorStatus(code) == IF code = 11000 THEN 409 ELSE 400

\* cases is the length of the list of case references the body carries
ClientBodies == [email : Emails, notificationSettings : BOOLEAN, cases : {0}]

\* POST /api/clients up to newClient.save()
CreateClientSave(w, user, body) ==
  /\ pc[w] = "idle"
  /\ LET err == SaveClientError(body.email, 0)
         doc == [email |-> body.email, status |-> TRUE, createdBy |-> user,
                 cases |-> body.cases]
     IN IF err # 0
          THEN /\ resp' = [resp EXCEPT ![w] =
                             Resp("createClient", CreateClientErrorStatus(err), Null)]
               /\ UNCHANGED <<clients, nextClientId, pc, loc>>
          ELSE /\ nextClientId <= MaxClients
               /\ clients' = [i \in DOMAIN clients \cup {nextClientId} |->
                                IF i = nextClientId THEN doc ELSE clients[i]]
               /\ nextClientId' = nextClientId + 1
               /\ pc' = [pc EXCEPT ![w] = "createClient"]
               /\ loc' = [loc EXCEPT ![w] = [NoLoc EXCEPT
                            !.id = nextClientId, !.user = user,
                            !.notify = body.notificationSettings]]
               /\ resp' = [resp EXCEPT ![w] = NoResp]
  /\ UNCHANGED <<auxVars, taskVars, userVars, invoiceVars, appointmentVars, caseVars, notifications>>

\* sendClientNotification: the welcome notification
\* the _id of a Client as a notification recipient: the ObjectIds of
\* clients differ from the ObjectIds of users, which are 1..MaxUsers
ClientObjectId(clientId) == MaxUsers + clientId

WelcomeNotification(clientId) ==
  [userId |-> ClientObjectId(clientId), userType |-> "Client", type |-> "system",
   isRead |-> FALSE]

\* the await of sendClientNotification, when settings were sent, and the
\* response; the in-memory document is the one that was saved
CreateClientNotify(w) ==
  /\ pc[w] = "createClient"
  /\ notifications' = IF loc[w].notify
                        THEN Append(notifications, WelcomeNotification(loc[w].id))
                        ELSE notifications
  /\ resp' = [resp EXCEPT ![w] =
                Resp("createClient", 201, [id |-> loc[w].id, createdBy |-> loc[w].user])]
  /\ pc' = [pc EXCEPT ![w] = "idle"]
  /\ loc' = [loc EXCEPT ![w] = NoLoc]
  /\ UNCHANGED <<auxVars, taskVars, userVars, invoiceVars, appointmentVars, caseVars, clients, nextClientId>>

ClientUpdates == [email : Emails \cup {""}, status : {"", "true", "false"}]

\* PUT /api/clients/:id: findById, Object.assign, save
UpdateClient(w, id, body) ==
  /\ pc[w] = "idle"
  /\ IF id \notin DOMAIN clients
       THEN /\ resp' = [resp EXCEPT ![w] = Resp("updateClient", 404, Null)]
            /\ UNCHANGED clients
       ELSE LET doc == [clients[id] EXCEPT
                          !.email = IF body.email = "" THEN @ ELSE body.email,
                          !.status = IF body.status = "" THEN @ ELSE body.status = "true"]
                err == SaveClientError(doc.email, id)
            IN IF err # 0
                 THEN /\ resp' = [resp EXCEPT ![w] =
                                    Resp("updateClient", CreateClientErrorStatus(err), Null)]
                      /\ UNCHANGED clients
                 ELSE /\ clients' = [clients EXCEPT ![id] = doc]
                      /\ resp' = [resp EXCEPT ![w] = Resp("updateClient", 200, doc)]
  /\ UNCHANGED <<auxVars, taskVars, userVars, invoiceVars, appointmentVars, caseVars, nextClientId, notifications, pc, loc>>

\* client.status = false
DeactivatedAndUnlinked(doc) == [doc EXCEPT !.status = FALSE, !.cases = 0]

Deactivated(doc) == [doc EXCEPT !.status = FALSE]

\* DELETE /api/clients/:id?soft=true
SoftDeleteClient(w, id) ==
  /\ pc[w] = "idle"
  /\ IF id \notin DOMAIN clients
       THEN /\ resp' = [resp EXCEPT ![w] = Resp("softDeleteClient", 404, Null)]
            /\ UNCHANGED clients
       ELSE /\ clients' = [clients EXCEPT ![id] = Deactivated(@)]
            /\ resp' = [resp EXCEPT ![w] = Resp("softDeleteClient", 200, Null)]
  /\ UNCHANGED <<auxVars, taskVars, userVars, invoiceVars, appointmentVars, caseVars, nextClientId, notifications, pc, loc>>

\* the documents that reference a client through their clientId path
InvoiceRefs(id) == {i \in DOMAIN invoices : invoices[i].clientId = id}
AppointmentRefs(id) == {i \in DOMAIN appointments : appointments[i].clientId = id}

\* Case.countDocuments({ clientId }): the Case schema has no clientId path,
\* so no stored case carries one.  A build whose query filters are strict
\* drops the unknown path and counts every case; one whose filters are not
\* strict matches no document.
RelatedCasesCounts == {0, Cardinality(DOMAIN cases)}

\* the 409 of a blocked hard delete: the entity kind the message names and
\* the count it prints, when it prints one
BlockedNoCount(kind, counted, count) == [kind |-> kind, counted |-> counted, count |-> 0]

Blocked(kind, counted, count) == [kind |-> kind, counted |-> counted, count |-> count]

\* DELETE /api/clients/:id up to findById() and the check of client.cases
HardDeleteFind(w, id) ==
  /\ pc[w] = "idle"
  /\ IF id \notin DOMAIN clients
       THEN /\ resp' = [resp EXCEPT ![w] = Resp("hardDeleteClient", 404, Null)]
            /\ UNCHANGED <<pc, loc>>
       ELSE IF clients[id].cases > 0
       THEN /\ resp' = [resp EXCEPT ![w] =
                          Resp("hardDeleteClient", 409, Blocked("cases", FALSE, 0))]
            /\ UNCHANGED <<pc, loc>>
       ELSE /\ pc' = [pc EXCEPT ![w] = "hardDeleteCases"]
            /\ loc' = [loc EXCEPT ![w] = [NoLoc EXCEPT !.id = id]]
            /\ resp' = [resp EXCEPT ![w] = NoResp]
  /\ UNCHANGED <<auxVars, taskVars, userVars, invoiceVars, appointmentVars, caseVars, clientVars>>

\* one count query of the hard delete: a non-zero count answers 409
HardDeleteCount(w, at, kind, count, next) ==
  /\ pc[w] = at
  /\ IF count > 0
       THEN /\ resp' = [resp EXCEPT ![w] =
                          Resp("hardDeleteClient", 409, Blocked(kind, TRUE, count))]
            /\ pc' = [pc EXCEPT ![w] = "idle"]
            /\ loc' = [loc EXCEPT ![w] = NoLoc]
       ELSE /\ pc' = [pc EXCEPT ![w] = next]
            /\ UNCHANGED <<loc, resp>>
  /\ UNCHANGED <<auxVars, taskVars, userVars, invoiceVars, appointmentVars, caseVars, clientVars>>

HardDeleteCountCases(w) ==
  \E count \in RelatedCasesCounts :
    HardDeleteCount(w, "hardDeleteCases", "cases", count, "hardDeleteInvoices")

HardDeleteCountInvoices(w) ==
  /\ pc[w] = "hardDeleteInvoices"
  /\ HardDeleteCount(w, "hardDeleteInvoices", "invoices",
                     Cardinality(InvoiceRefs(loc[w].id)), "hardDeleteAppointments")

HardDeleteCountAppointments(w) ==
  /\ pc[w] = "hardDeleteAppointments"
  /\ HardDeleteCount(w, "hardDeleteAppointments", "appointments",
                     Cardinality(AppointmentRefs(loc[w].id)), "hardDeleteRemove")

\* Client.findByIdAndDelete() and the response
HardDeleteRemove(w) ==
  /\ pc[w] = "hardDeleteRemove"
  /\ clients' = [i \in DOMAIN clients \ {loc[w].id} |-> clients[i]]
  /\ resp' = [resp EXCEPT ![w] = Resp("hardDeleteClient", 200, Null)]
  /\ pc' = [pc EXCEPT ![w] = "idle"]
  /\ loc' = [loc EXCEPT ![w] = NoLoc]
  /\ UNCHANGED <<auxVars, taskVars, userVars, invoiceVars, appointmentVars, caseVars, nextClientId, notifications>>

(***************************************************************************)
(* Tasks (models/Task.js, routes/tasks.js).  req.user.userId is the user   *)
(* the auth middleware took from the token.                                *)
(***************************************************************************)
MaxTasks == 2

TaskStatusEnum == {"Pending", "In Progress", "Completed"}

TaskStatusValid(s) == s = "" \/ s \in TaskStatusEnum

\* bodies of POST /api/tasks: a title or none, a due date that is missing,
\* unparseable or valid, and an optional status ("" when absent)
TaskDueDates == {"missing", "invalid", "valid"}
TaskStatuses == {"", "In Progress", "Completed", "Archived"}
TaskBody(status) == [title |-> TRUE, dueDate |-> "valid", status |-> status]
TaskBodies ==
  {TaskBody(st) : st \in TaskStatuses}
  \cup {[TaskBody("") EXCEPT !.title = FALSE]}
  \cup {[TaskBody("") EXCEPT !.dueDate = d] : d \in TaskDueDates}

\* the first failing check of the create handler, "" when the body passes
TaskBodyError(body) ==
  IF ~body.title THEN "Title is required"
  ELSE IF body.dueDate = "missing" THEN "Due date is required"
  ELSE IF body.dueDate = "invalid" THEN "Due date is in invalid format"
  ELSE ""

\* new Task({...}): status is req.body.status || 'Pending', completed is not
\* taken from the body and gets the schema default
NewTask(user, body) ==
  [userId |-> user, status |-> IF body.status = "" THEN "Pending" ELSE body.status,
   completed |-> FALSE]

\* POST /api/tasks
CreateTask(w, user, body) ==
  /\ pc[w] = "idle"
  /\ IF TaskBodyError(body) # "" \/ ~TaskStatusValid(body.status)
       THEN /\ resp' = [resp EXCEPT ![w] = Resp("createTask", 400, Null)]
            /\ UNCHANGED taskVars
       ELSE LET doc == NewTask(user, body) IN
            /\ nextTaskId <= MaxTasks
            /\ tasks' = [i \in DOMAIN tasks \cup {nextTaskId} |->
                           IF i = nextTaskId THEN doc ELSE tasks[i]]
            /\ nextTaskId' = nextTaskId + 1
            /\ resp' = [resp EXCEPT ![w] = Resp("createTask", 201, doc)]
  /\ UNCHANGED <<auxVars, userVars, invoiceVars, appointmentVars, caseVars, clientVars, pc, loc>>

\* the ownership check of the update, delete and toggle handlers
IsOwnerAlways(task, user) == TRUE

IsOwner(task, user) == task.userId = user

\* bodies of PUT /api/tasks/:id: each path is absent ("") or carries a value
TaskUpdate(status, completed) == [status |-> status, completed |-> completed]
TaskUpdates ==
  {TaskUpdate(st, "") : st \in TaskStatuses}
  \cup {TaskUpdate("", c) : c \in {"true", "false"}}
  \cup {TaskUpdate("Completed", "true")}

\* findByIdAndUpdate(id, req.body): the paths of the body overwrite the
\* document's
ApplyTaskUpdate(doc, body) ==
  [doc EXCEPT !.status = IF body.status = "" THEN @ ELSE body.status,
              !.completed = IF body.completed = "" THEN @ ELSE body.completed = "true"]

\* PUT /api/tasks/:id
PutTask(w, user, id, body) ==
  /\ pc[w] = "idle"
  /\ IF id \notin DOMAIN tasks
       THEN /\ resp' = [resp EXCEPT ![w] = Resp("putTask", 404, Null)]
            /\ UNCHANGED tasks
       ELSE IF ~IsOwner(tasks[id], user)
       THEN /\ resp' = [resp EXCEPT ![w] = Resp("putTask", 403, Null)]
            /\ UNCHANGED tasks
       ELSE IF ~TaskStatusValid(body.status)
       THEN /\ resp' = [resp EXCEPT ![w] = Resp("putTask", 400, Null)]
            /\ UNCHANGED tasks
       ELSE LET doc == ApplyTaskUpdate(tasks[id], body) IN
            /\ tasks' = [tasks EXCEPT ![id] = doc]
            /\ resp' = [resp EXCEPT ![w] = Resp("putTask", 200, doc)]
  /\ UNCHANGED <<auxVars, nextTaskId, userVars, invoiceVars, appointmentVars, caseVars,
                 clientVars, pc, loc>>

\* DELETE /api/tasks/:id
DeleteTask(w, user, id) ==
  /\ pc[w] = "idle"
  /\ IF id \notin DOMAIN tasks
       THEN /\ resp' = [resp EXCEPT ![w] = Resp("deleteTask", 404, Null)]
            /\ UNCHANGED tasks
       ELSE IF ~IsOwner(tasks[id], user)
       THEN /\ resp' = [resp EXCEPT ![w] = Resp("deleteTask", 403, Null)]
            /\ UNCHANGED tasks
       ELSE /\ tasks' = [i \in DOMAIN tasks \ {id} |-> tasks[i]]
            /\ resp' = [resp EXCEPT ![w] = Resp("deleteTask", 200, Null)]
  /\ UNCHANGED <<auxVars, nextTaskId, userVars, invoiceVars, appointmentVars, caseVars,
                 clientVars, pc, loc>>

\* task.completed = !task.completed; task.status = ...
ToggledKeepStatus(doc) == [doc EXCEPT !.completed = ~doc.completed]

Toggled(doc) ==
  [doc EXCEPT !.completed = ~doc.completed,
              !.status = IF ~doc.completed THEN "Completed" ELSE "In Progress"]

\* PATCH /api/tasks/:id/toggle
ToggleTask(w, user, id) ==
  /\ pc[w] = "idle"
  /\ IF id \notin DOMAIN tasks
       THEN /\ resp' = [resp EXCEPT ![w] = Resp("toggleTask", 404, Null)]
            /\ UNCHANGED tasks
       ELSE IF ~IsOwner(tasks[id], user)
       THEN /\ resp' = [resp EXCEPT ![w] = Resp("toggleTask", 403, Null)]
            /\ UNCHANGED tasks
       ELSE LET doc == Toggled(tasks[id]) IN
            /\ tasks' = [tasks EXCEPT ![id] = doc]
            /\ resp' = [resp EXCEPT ![w] = Resp("toggleTask", 200, doc)]
  /\ UNCHANGED <<auxVars, nextTaskId, userVars, invoiceVars, appointmentVars, caseVars,
                 clientVars, pc, loc>>

(***************************************************************************)
(* The auth middleware (middleware/auth.js) and the routes it is mounted   *)
(* on (server/index.js and the routers).                                   *)
(***************************************************************************)
\* the user ids that tokens carry
TokenUserIds == {1, 2}

\* a token: whether jwt.verify() accepts it (signature and expiry) and the
\* userId of its payload, 0 when the payload has none
NoToken == [verifies |-> FALSE, userId |-> 0, none |-> TRUE]
Token(verifies, userId) == [verifies |-> verifies, userId |-> userId, none |-> FALSE]
Tokens == {Token(v, u) : v \in BOOLEAN, u \in {0} \cup TokenUserIds}

\* the Authorization header: absent, of another scheme, or Bearer with the
\* text after the blank
NoHeader == [scheme |-> "", token |-> NoToken]
Headers ==
  {NoHeader, [scheme |-> "Basic", token |-> Token(TRUE, 1)],
   [scheme |-> "Bearer", token |-> NoToken]}
  \cup {[scheme |-> "Bearer", token |-> t] : t \in Tokens}

\* the message of the 401 the middleware answers with, "" when it calls next()
AuthError(header) ==
  IF header.scheme # "Bearer" THEN "No authentication token, access denied"
  ELSE IF header.token.none THEN "No authentication token, access denied"
  ELSE IF ~header.token.verifies THEN "Token verification failed"
  ELSE IF header.token.userId = 0 THEN "Invalid token structure"
  ELSE ""

\* the routes registered without the middleware
OpenRoutesWithTasks == {"register", "login", "toggleTask"}

OpenRoutes == {"register", "login"}

UsesAuth(route) == route \notin OpenRoutes

\* a request to a route: the middleware answers, or the handler runs
Request(w, route, header, handler) ==
  IF UsesAuth(route) /\ AuthError(header) # ""
    THEN /\ pc[w] = "idle"
         /\ resp' = [resp EXCEPT ![w] = Resp(route, 401, Null)]
         /\ UNCHANGED <<auxVars, taskVars, userVars, invoiceVars, appointmentVars,
                        caseVars, clientVars, pc, loc>>
    ELSE handler

(***************************************************************************)
(* Registration and login (routes/auth.js).  A user document is            *)
(* [email, password, role, clientId], clientId 0 when it links no client.  *)
(***************************************************************************)
Passwords == {"secret", "guess"}
Roles == {"client", "lawyer"}

\* bodies of POST /api/auth/register: complete is false when name, password
\* or role is missing
RegisterBodies == [complete : BOOLEAN, email : Emails, password : {"secret"}, role : Roles]

\* User.findOne({ email })
UsersByEmail(email) == {u \in DOMAIN users : users[u].email = email}

\* Client.findOne({ email })
ClientsByEmail(email) == {c \in DOMAIN clients : clients[c].email = email}

\* user.comparePassword(password)
ComparePassword(user, password) == user.password = password

\* the payload of the token jwt.sign() issues
TokenPayloadNoClient(id, user) == [userId |-> id, role |-> user.role, clientId |-> 0]

TokenPayload(id, user) == [userId |-> id, role |-> user.role, clientId |-> user.clientId]

\* the body of a response that carries a token
Session(id, user) ==
  [token |-> TokenPayload(id, user),
   user |-> [id |-> id, email |-> user.email, role |-> user.role,
             clientId |-> user.clientId]]

\* POST /api/auth/register
Register(w, body) ==
  /\ pc[w] = "idle"
  /\ IF ~body.complete
       THEN /\ resp' = [resp EXCEPT ![w] = Resp("register", 400, Null)]
            /\ UNCHANGED <<users, nextUserId, clients, nextClientId>>
       ELSE IF UsersByEmail(body.email) # {}
       THEN /\ resp' = [resp EXCEPT ![w] = Resp("register", 400, Null)]
            /\ UNCHANGED <<users, nextUserId, clients, nextClientId>>
       ELSE LET id == nextUserId
                user == [email |-> body.email, password |-> body.password,
                         role |-> body.role, clientId |-> 0]
                client == [email |-> body.email, status |-> TRUE, createdBy |-> id,
                           cases |-> 0]
                linked == [user EXCEPT !.clientId = nextClientId]
                stored(u) == [i \in DOMAIN users \cup {id} |->
                                IF i = id THEN u ELSE users[i]]
            IN /\ nextUserId <= MaxUsers
               /\ nextUserId' = nextUserId + 1
               /\ IF body.role # "client"
                    THEN /\ users' = stored(user)
                         /\ UNCHANGED <<clients, nextClientId>>
                         /\ resp' = [resp EXCEPT ![w] =
                                       Resp("register", 201, Session(id, user))]
                    ELSE IF SaveClientError(body.email, 0) # 0
                    \* client.save() throws: the user stays, without a client
                    THEN /\ users' = stored(user)
                         /\ UNCHANGED <<clients, nextClientId>>
                         /\ resp' = [resp EXCEPT ![w] = Resp("register", 500, Null)]
                    ELSE /\ nextClientId <= MaxClients
                         /\ users' = stored(linked)
                         /\ clients' = [i \in DOMAIN clients \cup {nextClientId} |->
                                          IF i = nextClientId THEN client ELSE clients[i]]
                         /\ nextClientId' = nextClientId + 1
                         /\ resp' = [resp EXCEPT ![w] =
                                       Resp("register", 201, Session(id, linked))]
  /\ UNCHANGED <<auxVars, taskVars, invoiceVars, appointmentVars, caseVars, notifications, pc, loc>>

\* POST /api/auth/login; "" is a missing email or password
Login(w, email, password) ==
  /\ pc[w] = "idle"
  /\ IF email = "" \/ password = ""
       THEN resp' = [resp EXCEPT ![w] = Resp("login", 400, Null)]
     ELSE IF UsersByEmail(email) = {}
       THEN resp' = [resp EXCEPT ![w] = Resp("login", 400, Null)]
     ELSE LET id == CHOOSE u \in UsersByEmail(email) : TRUE
              user == users[id]
          IN IF ~ComparePassword(user, password)
               THEN resp' = [resp EXCEPT ![w] = Resp("login", 400, Null)]
             ELSE IF user.role # "client"
               THEN resp' = [resp EXCEPT ![w] = Resp("login", 200, Session(id, user))]
             ELSE IF ClientsByEmail(user.email) = {}
               THEN resp' = [resp EXCEPT ![w] = Resp("login", 400, Null)]
             ELSE LET c == CHOOSE c \in ClientsByEmail(user.email) : TRUE IN
                  IF ~clients[c].status
                    THEN resp' = [resp EXCEPT ![w] = Resp("login", 403, Null)]
                    ELSE resp' = [resp EXCEPT ![w] =
                           Resp("login", 200, Session(id, [user EXCEPT !.clientId = c]))]
  /\ UNCHANGED <<auxVars, taskVars, userVars, invoiceVars, appointmentVars, caseVars,
                 clientVars, pc, loc>>

(***************************************************************************)
(* Notification routes (routes/notifications.js).  A caller is the         *)
(* req.user of the token; :id is the place of a notification in the        *)
(* collection.                                                             *)
(***************************************************************************)
MaxNotifications == 2

Callers == [userId : TokenUserIds, role : Roles]

\* req.user.role === 'client' ? 'Client' : 'User'
UserType(caller) == IF caller.role = "client" THEN "Client" ELSE "User"

NotificationTypes == {"system", ""}

\* POST /api/notifications: save() validates the required type
CreateNotification(w, caller, type) ==
  /\ pc[w] = "idle"
  /\ IF type = ""
       THEN /\ resp' = [resp EXCEPT ![w] = Resp("createNotification", 500, Null)]
            /\ UNCHANGED notifications
       ELSE LET doc == [userId |-> caller.userId, userType |-> UserType(caller),
                        type |-> type, isRead |-> FALSE] IN
            /\ Len(notifications) < MaxNotifications
            /\ notifications' = Append(notifications, doc)
            /\ resp' = [resp EXCEPT ![w] = Resp("createNotification", 201, doc)]
  /\ UNCHANGED <<auxVars, taskVars, userVars, invoiceVars, appointmentVars, caseVars,
                 clients, nextClientId, pc, loc>>

\* the filter { _id, userId } of the routes that take an id
FoundAny(id, caller) == id \in DOMAIN notifications

Found(id, caller) ==
  id \in DOMAIN notifications /\ notifications[id].userId = caller.userId

\* the filter { userId, userType, isRead } of the routes that take none
Matches(doc, caller, isRead) ==
  doc.userId = caller.userId /\ doc.userType = UserType(caller) /\ doc.isRead = isRead

\* PATCH /api/notifications/:id/read
MarkNotificationRead(w, caller, id) ==
  /\ pc[w] = "idle"
  /\ IF ~Found(id, caller)
       THEN /\ resp' = [resp EXCEPT ![w] = Resp("markNotificationRead", 404, Null)]
            /\ UNCHANGED notifications
       ELSE LET doc == [notifications[id] EXCEPT !.isRead = TRUE] IN
            /\ notifications' = [notifications EXCEPT ![id] = doc]
            /\ resp' = [resp EXCEPT ![w] = Resp("markNotificationRead", 200, doc)]
  /\ UNCHANGED <<auxVars, taskVars, userVars, invoiceVars, appointmentVars, caseVars,
                 clients, nextClientId, pc, loc>>

\* PATCH /api/notifications/read-all
MarkAllNotificationsRead(w, caller) ==
  /\ pc[w] = "idle"
  /\ notifications' = [i \in DOMAIN notifications |->
                         IF Matches(notifications[i], caller, FALSE)
                           THEN [notifications[i] EXCEPT !.isRead = TRUE]
                           ELSE notifications[i]]
  /\ resp' = [resp EXCEPT ![w] = Resp("markAllNotificationsRead", 200, Null)]
  /\ UNCHANGED <<auxVars, taskVars, userVars, invoiceVars, appointmentVars, caseVars,
                 clients, nextClientId, pc, loc>>

\* the collection without the document at one place
RECURSIVE RemoveAt(_, _)
RemoveAt(s, id) ==
  IF id = 1 THEN Tail(s) ELSE <<Head(s)>> \o RemoveAt(Tail(s), id - 1)

\* DELETE /api/notifications/:id
DeleteNotification(w, caller, id) ==
  /\ pc[w] = "idle"
  /\ IF ~Found(id, caller)
       THEN /\ resp' = [resp EXCEPT ![w] = Resp("deleteNotification", 404, Null)]
            /\ UNCHANGED notifications
       ELSE /\ notifications' = RemoveAt(notifications, id)
            /\ resp' = [resp EXCEPT ![w] = Resp("deleteNotification", 200, Null)]
  /\ UNCHANGED <<auxVars, taskVars, userVars, invoiceVars, appointmentVars, caseVars,
                 clients, nextClientId, pc, loc>>

\* DELETE /api/notifications/clear/read
ClearReadNotifications(w, caller) ==
  /\ pc[w] = "idle"
  /\ LET Kept(doc) == ~Matches(doc, caller, TRUE) IN
     notifications' = SelectSeq(notifications, Kept)
  /\ resp' = [resp EXCEPT ![w] = Resp("clearReadNotifications", 200, Null)]
  /\ UNCHANGED <<auxVars, taskVars, userVars, invoiceVars, appointmentVars, caseVars,
                 clients, nextClientId, pc, loc>>

(***************************************************************************)
(* Specifications.                                                         *)
(***************************************************************************)
Init ==
  /\ invoices = <<>>
  /\ nextInvoiceId = 1
  /\ appointments = <<>>
  /\ nextAppointmentId = 1
  /\ cases = <<>>
  /\ clients = <<>>
  /\ nextClientId = 1
  /\ notifications = <<>>
  /\ tasks = <<>>
  /\ nextTaskId = 1
  /\ users = <<>>
  /\ nextUserId = 1
  /\ pc = [w \in Workers |-> "idle"]
  /\ loc = [w \in Workers |-> NoLoc]
  /\ resp = [w \in Workers |-> NoResp]
  /\ boot = Booting
  /\ teamMembers = <<>>
  /\ nextMemberId = 1
  /\ files = {}
  /\ nextFile = 1
  /\ hookClients = <<>>
  /\ serverList = <<>>
  /\ nextServerId = 1
  /\ calls = [c \in Calls |-> NoCall]
  /\ rollbacks = 0
  /\ started = 0

InvoiceIds(cap) == 1..cap

\* the invoice routes, one request at a time
Next ==
  \E w \in SeqWorkers :
    \/ \E body \in InvoiceBodies : CreateInvoiceCount(w, body, MaxInvoices)
    \/ CreateInvoiceSave(w)
    \/ \E id \in InvoiceIds(MaxInvoices), body \in PutBodies : PutInvoice(w, id, body)
    \/ \E id \in InvoiceIds(MaxInvoices) : DeleteInvoice(w, id)
    \/ \E id \in InvoiceIds(MaxInvoices), s \in PatchStatuses : SetInvoiceStatus(w, id, s)
    \/ \E id \in InvoiceIds(MaxInvoices) : MarkInvoiceViewed(w, id)
    \/ \E id \in InvoiceIds(MaxInvoices), a \in PaymentAmounts : RecordPaymentRead(w, id, a)
    \/ RecordPaymentWrite(w)

Spec == Init /\ [][Next]_vars


\* the routes that create, delete, mark and pay invoices, one request at a time
NextPayment ==
  \E w \in SeqWorkers :
    \/ \E body \in InvoiceBodies : CreateInvoiceCount(w, body, MaxInvoices)
    \/ CreateInvoiceSave(w)
    \/ \E id \in InvoiceIds(MaxInvoices) : DeleteInvoice(w, id)
    \/ \E id \in InvoiceIds(MaxInvoices) : MarkInvoiceViewed(w, id)
    \/ \E id \in InvoiceIds(MaxInvoices), a \in PaymentAmounts : RecordPaymentRead(w, id, a)
    \/ RecordPaymentWrite(w)

SpecPayment == Init /\ [][NextPayment]_vars

\* concurrent requests to the invoice routes that await the database twice
ConcAmounts == {JNum(1), JNum(2)}
ConcBodies == {InvoiceBody(JNum(2))}

NextConc ==
  \E w \in ConcWorkers :
    \/ \E body \in ConcBodies : CreateInvoiceCount(w, body, MaxConcInvoices)
    \/ CreateInvoiceSave(w)
    \/ \E id \in InvoiceIds(MaxConcInvoices) : DeleteInvoice(w, id)
    \/ \E id \in InvoiceIds(MaxConcInvoices), a \in ConcAmounts : RecordPaymentRead(w, id, a)
    \/ RecordPaymentWrite(w)

SpecConc == Init /\ [][NextConc]_vars


\* the routes that write a status: invoices and appointments
NextStatus ==
  \E w \in SeqWorkers :
    \/ \E body \in ConcBodies : CreateInvoiceCount(w, body, MaxInvoices)
    \/ CreateInvoiceSave(w)
    \/ \E id \in InvoiceIds(MaxInvoices), s \in PatchStatuses : SetInvoiceStatus(w, id, s)
    \/ \E body \in AppointmentBodies : CreateAppointment(w, body)
    \/ \E id \in 1..MaxAppointments, body \in AppointmentBodies : PutAppointment(w, id, body)
    \/ \E id \in 1..MaxAppointments : DeleteAppointment(w, id)
    \/ \E id \in 1..MaxAppointments, s \in AppointmentStatuses \cup {"Scheduled"} :
         SetAppointmentStatus(w, id, s)

SpecStatus == Init /\ [][NextStatus]_vars

\* the case-creation routes
NextCase ==
  \E w \in SeqWorkers :
    \/ \E user \in Users, body \in DirectBodies, now \in Times :
         CreateCaseDirect(w, user, body, now)
    \/ \E route \in CaseRoutes, user \in Users, body \in CaseBodies :
         CreateCaseSave(w, route, user, body, "")
    \/ \E route \in CaseRoutes, user \in Users, no \in ClientNos, s \in CaseStatuses :
         CreateCaseSave(w, route, user, CaseBody({}, Undefined, no), s)
    \/ CreateCaseTimeline(w)

SpecCase == Init /\ [][NextCase]_vars

\* the client routes
NextClient ==
  \E w \in ConcWorkers :
    \/ \E user \in Users, body \in ClientBodies : CreateClientSave(w, user, body)
    \/ CreateClientNotify(w)
    \/ \E id \in 1..MaxClients, body \in ClientUpdates : UpdateClient(w, id, body)
    \/ \E id \in 1..MaxClients : SoftDeleteClient(w, id)

SpecClient == Init /\ [][NextClient]_vars

\* the routes that create and delete clients and the documents that
\* reference them
\* a client without case references and one with a case reference
DeleteClientBodies ==
  {[email |-> "a@firm.example", notificationSettings |-> FALSE, cases |-> 0],
   [email |-> "b@firm.example", notificationSettings |-> FALSE, cases |-> 1]}
\* invoices of the first two clients, appointments of the first
DeleteInvoiceBodies == {[InvoiceBody(JNum(1)) EXCEPT !.clientId = c] : c \in {1, 2}}
DeleteAppointmentBodies == [required : {TRUE}, status : {""}, clientId : {1}]
DeleteCaseBody == CaseBody({}, Undefined, CHOOSE no \in ClientNos : TRUE)

NextDelete ==
  \E w \in SeqWorkers :
    \/ \E body \in DeleteClientBodies : CreateClientSave(w, "u1", body)
    \/ CreateClientNotify(w)
    \/ \E body \in DeleteInvoiceBodies : CreateInvoiceCount(w, body, MaxInvoices)
    \/ CreateInvoiceSave(w)
    \/ \E body \in DeleteAppointmentBodies : CreateAppointment(w, body)
    \/ CreateCaseDirect(w, "u1", DeleteCaseBody, 1)
    \/ \E id \in 1..MaxClients : SoftDeleteClient(w, id)
    \/ \E id \in 1..MaxClients : HardDeleteFind(w, id)
    \/ HardDeleteCountCases(w)
    \/ HardDeleteCountInvoices(w)
    \/ HardDeleteCountAppointments(w)
    \/ HardDeleteRemove(w)

SpecDelete == Init /\ [][NextDelete]_vars

\* the task routes
NextTask ==
  \E w \in SeqWorkers, user \in Users :
    \/ \E body \in TaskBodies : CreateTask(w, user, body)
    \/ \E id \in 1..MaxTasks, body \in TaskUpdates : PutTask(w, user, id, body)
    \/ \E id \in 1..MaxTasks : DeleteTask(w, user, id)
    \/ \E id \in 1..MaxTasks : ToggleTask(w, user, id)

SpecTask == Init /\ [][NextTask]_vars

\* requests with every kind of Authorization header to routes of the task
\* and appointment routers
AuthAppointmentBodies == [required : {TRUE}, status : {""}, clientId : {1}]
AuthTaskBodies == {TaskBody("")}

ReqCreateTask(w, header) ==
  Request(w, "createTask", header,
          \E body \in AuthTaskBodies : CreateTask(w, header.token.userId, body))

ReqToggleTask(w, header) ==
  Request(w, "toggleTask", header,
          \E id \in 1..MaxTasks : ToggleTask(w, header.token.userId, id))

ReqCreateAppointment(w, header) ==
  Request(w, "createAppointment", header,
          \E body \in AuthAppointmentBodies : CreateAppointment(w, body))

ReqDeleteAppointment(w, header) ==
  Request(w, "deleteAppointment", header,
          \E id \in 1..MaxAppointments : DeleteAppointment(w, id))

AuthRequest(w, header) ==
  \/ ReqCreateTask(w, header)
  \/ ReqToggleTask(w, header)
  \/ ReqCreateAppointment(w, header)
  \/ ReqDeleteAppointment(w, header)

NextAuth == \E w \in SeqWorkers, header \in Headers : AuthRequest(w, header)

SpecAuth == Init /\ [][NextAuth]_vars

\* registration and login next to the client routes that change a client's
\* email and status
LoginClientBodies == [email : Emails, notificationSettings : {FALSE}, cases : {0}]
LoginClientUpdates ==
  {[email |-> e, status |-> ""] : e \in Emails} \cup {[email |-> "", status |-> "true"]}

NextLogin ==
  \E w \in SeqWorkers :
    \/ \E body \in RegisterBodies : Register(w, body)
    \/ \E email \in Emails \cup {""}, password \in Passwords : Login(w, email, password)
    \/ \E body \in LoginClientBodies : CreateClientSave(w, 1, body)
    \/ CreateClientNotify(w)
    \/ \E id \in 1..MaxClients, body \in LoginClientUpdates : UpdateClient(w, id, body)
    \/ \E id \in 1..MaxClients : SoftDeleteClient(w, id)

SpecLogin == Init /\ [][NextLogin]_vars

\* the notification routes
NextNotification ==
  \E w \in SeqWorkers, caller \in Callers :
    \/ \E type \in NotificationTypes : CreateNotification(w, caller, type)
    \/ \E id \in 1..MaxNotifications : MarkNotificationRead(w, caller, id)
    \/ MarkAllNotificationsRead(w, caller)
    \/ \E id \in 1..MaxNotifications : DeleteNotification(w, caller, id)
    \/ ClearReadNotifications(w, caller)

SpecNotification == Init /\ [][NextNotification]_vars

\* a hard delete of a client next to concurrent requests that create
\* documents referencing clients
NextDeleteConc ==
  \E w \in ConcWorkers :
    \/ \E body \in ClientBodies : CreateClientSave(w, "u1", body)
    \/ CreateClientNotify(w)
    \/ \E body \in DeleteInvoiceBodies : CreateInvoiceCount(w, body, MaxInvoices)
    \/ CreateInvoiceSave(w)
    \/ \E body \in DeleteAppointmentBodies : CreateAppointment(w, body)
    \/ \E id \in 1..MaxClients : HardDeleteFind(w, id)
    \/ HardDeleteCountCases(w)
    \/ HardDeleteCountInvoices(w)
    \/ HardDeleteCountAppointments(w)
    \/ HardDeleteRemove(w)

SpecDeleteConc == Init /\ [][NextDeleteConc]_vars


(***************************************************************************)
(* Properties.                                                             *)
(***************************************************************************)
InvoiceDocRoutes ==
  {"createInvoice", "putInvoice", "setInvoiceStatus", "markViewed", "recordPayment"}

\* the workers whose last response carries an invoice document
ReportsInvoice(w) == resp[w].route \in InvoiceDocRoutes /\ resp[w].doc # Null

\* C1: the balanceDue every stored invoice reports, and the balanceDue of
\* every invoice document a response carries, is that document's total
\* minus its paid amount.
C1_BalanceDueIsTotalMinusPaid ==
  /\ \A id \in DOMAIN invoices :
       InvoiceJSON(id, invoices[id]).balanceDue = invoices[id].total - invoices[id].paid
  /\ \A w \in Workers :
       ReportsInvoice(w) => resp[w].doc.balanceDue = resp[w].doc.total - resp[w].doc.paid

\* a payment has been recorded and the response reports what is left to pay
C1_Witness ==
  \E w \in Workers :
    /\ ReportsInvoice(w) /\ resp[w].route = "recordPayment"
    /\ resp[w].doc.paid > 0 /\ resp[w].doc.balanceDue > 0

\* the step in which worker w's record-payment request writes to invoice id
PaymentWritten(w) ==
  /\ pc[w] = "recordPayment" /\ pc'[w] = "idle"
  /\ resp'[w].code = 200 /\ resp'[w].doc # Null
  /\ loc[w].id \in DOMAIN invoices

C3_NoPaymentLost ==
  [][\A w \in Workers :
       PaymentWritten(w) =>
         invoices'[loc[w].id].paid
           = invoices[loc[w].id].paid + ParseFloat(loc[w].amount).v]_vars

\* a step that moves an invoice into status Overdue
MovesIntoOverdue ==
  \E id \in DOMAIN invoices' :
    /\ invoices'[id].status = "Overdue"
    /\ id \in DOMAIN invoices => invoices[id].status # "Overdue"

IsSetInvoiceStatus ==
  \E w \in Workers, id \in InvoiceIds(MaxInvoices), s \in PatchStatuses :
    SetInvoiceStatus(w, id, s)

IsPutInvoice ==
  \E w \in Workers, id \in InvoiceIds(MaxInvoices), body \in PutBodies :
    PutInvoice(w, id, body)

\* C4 as stated: only the set-status action moves an invoice into Overdue.
C4_OverdueOnlyBySetStatus == [][MovesIntoOverdue => IsSetInvoiceStatus]_vars

\* C4 as amended: only the set-status action and the PUT update move an
\* invoice into Overdue; create, mark-viewed and record-payment never do.
C4_OverdueOnlyManually ==
  [][MovesIntoOverdue => (IsSetInvoiceStatus \/ IsPutInvoice)]_vars

\* a PUT update has put an invoice into Overdue
C4_Witness ==
  \E w \in Workers :
    /\ resp[w].route = "putInvoice" /\ resp[w].code = 200
    /\ resp[w].doc.status = "Overdue"
    /\ invoices[resp[w].doc.id].status = "Overdue"

\* C5: no stored invoice or appointment has a status outside its enum.
C5_StatusInEnum ==
  /\ \A id \in DOMAIN invoices : invoices[id].status \in InvoiceStatusEnum
  /\ \A id \in DOMAIN appointments : appointments[id].status \in AppointmentStatusEnum

UniqueInvoiceNos ==
  \A i, j \in DOMAIN invoices :
    i # j => invoices[i].invoiceNo # invoices[j].invoiceNo

\* C6: no two stored invoices carry the same invoice number, and a create
\* request whose number is already stored when it saves is answered with an
\* error and stores nothing.
C6_InvoiceNumbersUnique ==
  [][/\ UniqueInvoiceNos'
     /\ \A w \in Workers :
          (CreateInvoiceSave(w)
             /\ \E i \in DOMAIN invoices :
                  invoices[i].invoiceNo = InvoiceNo(loc[w].count))
          => (resp'[w].code = 400 /\ invoices' = invoices)]_vars

\* two requests counted the same number of documents: one was stored, the
\* other was answered with an error
C6_Witness ==
  \E w, v \in Workers :
    /\ w # v
    /\ resp[w].route = "createInvoice" /\ resp[w].code = 201
    /\ resp[v].route = "createInvoice" /\ resp[v].code = 400
    /\ DOMAIN invoices = {resp[w].doc.id}

\* an amount that is missing, not numeric, zero or negative
AmountRejected(a) ==
  a.k = "undefined" \/ ToNumber(a).nan \/ ToNumber(a).v <= 0

\* C7: a record-payment request with a missing, non-numeric, zero or
\* negative amount is answered with 400, one with a valid amount for an
\* invoice that does not exist with 404, and neither changes any invoice.
C7_BadPaymentRejected ==
  [][\A w \in Workers :
       (pc[w] = "idle" /\ (resp'[w].route = "recordPayment" \/ pc'[w] = "recordPayment"))
       => \A id \in InvoiceIds(MaxInvoices), a \in PaymentAmounts :
            RecordPaymentRead(w, id, a) =>
              /\ AmountRejected(a) =>
                   (resp'[w].code = 400 /\ pc'[w] = "idle" /\ invoices' = invoices)
              /\ (~AmountRejected(a) /\ id \notin DOMAIN invoices) =>
                   (resp'[w].code = 404 /\ pc'[w] = "idle" /\ invoices' = invoices)]_vars

\* a payment on a stored invoice has been refused
C7_Witness ==
  \E w \in Workers :
    /\ resp[w].route = "recordPayment" /\ resp[w].code = 400
    /\ \E id \in DOMAIN invoices : invoices[id].paid > 0

\* C8: the balance due of every stored invoice is at least 0.
C8_BalanceDueNonNegative ==
  \A id \in DOMAIN invoices : BalanceDue(invoices[id]) >= 0

\* the fields of a request that are missing or blank after trimming
BlankFields(body) ==
  {f \in CaseFields :
     body[f].k = "undefined" \/ (body[f].k = "string" /\ Trim(body[f].s) = <<>>)}

CaseRejected(w, body) ==
  /\ resp'[w].code = 422
  /\ resp'[w].errors = BlankFields(body)
  /\ cases' = cases

\* C9: a request to a case-creation route with a blank field is answered
\* with 422 and an error map whose keys are the blank fields, and stores
\* no case.
C9_BlankCaseRejected ==
  [][\A w \in Workers, user \in Users :
       /\ \A route \in CaseRoutes, body \in CaseBodies :
            (CreateCaseSave(w, route, user, body, "") /\ BlankFields(body) # {})
              => CaseRejected(w, body)
       /\ \A body \in DirectBodies, now \in Times :
            (CreateCaseDirect(w, user, body, now) /\ BlankFields(body) # {})
              => CaseRejected(w, body)]_vars

C11_HardDeleteOnlyUnreferenced ==
  [][\A w \in Workers :
       (HardDeleteRemove(w) /\ loc[w].id \in DOMAIN clients)
       => (InvoiceRefs(loc[w].id) = {} /\ AppointmentRefs(loc[w].id) = {})]_vars

GuardedTaskRoutes == {"putTask", "deleteTask", "toggleTask"}

\* the response a task route gives a caller who is not the owner
RefusedUnchanged(w) == resp'[w].code = 403 /\ tasks' = tasks

\* C13: an update, delete or toggle of a stored task requested by a user who
\* is not the task's owner is answered with 403 and leaves every task
\* unchanged.
C13_NonOwnerRefused ==
  [][\A w \in Workers, user \in Users, id \in DOMAIN tasks :
       (tasks[id].userId # user /\ resp'[w].route \in GuardedTaskRoutes)
       => \/ RefusedUnchanged(w)
          \/ /\ \A body \in TaskUpdates : ~PutTask(w, user, id, body)
             /\ ~DeleteTask(w, user, id)
             /\ ~ToggleTask(w, user, id)]_vars

\* a user who does not own the stored task has been refused
C13_Witness ==
  \E w \in Workers, id \in DOMAIN tasks :
    /\ resp[w].route \in GuardedTaskRoutes
    /\ resp[w].code = 403
    /\ tasks[id].userId = "u1"

C15_CompletedIffStatusCompleted ==
  \A id \in DOMAIN tasks : tasks[id].completed <=> (tasks[id].status = "Completed")

\* the stored documents are the ones before the step
StoreUnchanged ==
  UNCHANGED <<invoices, appointments, cases, clients, notifications, tasks, users>>

\* C16: a request to a route other than login and register whose
\* Authorization header carries no bearer token, a token that fails
\* verification, or a token without a user id is answered with 401 and
\* changes no stored document.
C16_UnauthenticatedRefused ==
  [][\A w \in Workers, header \in Headers :
       (AuthError(header) # "" /\ resp'[w].route # "none")
       => \/ resp'[w].code = 401 /\ StoreUnchanged
          \/ ~AuthRequest(w, header)]_vars

\* a request without a valid token has been refused while a task is stored
C16_Witness ==
  \E w \in Workers :
    /\ resp[w].code = 401 /\ resp[w].route = "toggleTask"
    /\ tasks # <<>>

\* the client a user account is linked to is stored and inactive
LinkedClientInactive(u) ==
  /\ users[u].clientId \in DOMAIN clients
  /\ ~clients[users[u].clientId].status

\* C17: while the client linked to a user account has a false status flag, a
\* login of that account with its correct credentials is answered with 403
\* and carries no token.
C17_InactiveClientCannotLogin ==
  [][\A w \in Workers, u \in DOMAIN users :
       (LinkedClientInactive(u) /\ Login(w, users[u].email, users[u].password))
       => (resp'[w].code = 403 /\ resp'[w].doc = Null)]_vars

\* C18: a registration with role client that is answered with 201 stores
\* exactly one new user and one new client, the user's clientId being the
\* client's id and the client's createdBy the user's id, and its token
\* carries that user id, the role and that client id.
C18_ClientRegistrationLinks ==
  [][\A w \in Workers, body \in RegisterBodies :
       (body.role = "client" /\ Register(w, body) /\ resp'[w].code = 201)
       => \E u \in 1..MaxUsers, c \in 1..MaxClients :
            /\ u \notin DOMAIN users /\ DOMAIN users' = DOMAIN users \cup {u}
            /\ c \notin DOMAIN clients /\ DOMAIN clients' = DOMAIN clients \cup {c}
            /\ \A i \in DOMAIN users : users'[i] = users[i]
            /\ \A i \in DOMAIN clients : clients'[i] = clients[i]
            /\ users'[u].clientId = c /\ users'[u].role = "client"
            /\ clients'[c].createdBy = u
            /\ resp'[w].doc.token = [userId |-> u, role |-> "client", clientId |-> c]]_vars

\* a second account has registered as a client and holds its token
C18_Witness ==
  \E w \in Workers :
    /\ resp[w].route = "register" /\ resp[w].code = 201
    /\ resp[w].doc.token.role = "client"
    /\ resp[w].doc.token.userId = 2
    /\ resp[w].doc.token.clientId \in DOMAIN clients

\* the notifications, in order, whose recipient is not the given user
NotificationsOfOthers(s, userId) ==
  LET Other(doc) == doc.userId # userId IN SelectSeq(s, Other)

\* one of the four actions on notifications, requested by the caller
NotificationAction(w, caller) ==
  \/ \E id \in 1..MaxNotifications : MarkNotificationRead(w, caller, id)
  \/ MarkAllNotificationsRead(w, caller)
  \/ \E id \in 1..MaxNotifications : DeleteNotification(w, caller, id)
  \/ ClearReadNotifications(w, caller)

\* C19: mark-one-read, mark-all-read, delete-one and delete-all-read requested
\* by a caller neither change nor remove a notification whose recipient id
\* is not the caller's user id, and mark-one-read and delete-one on such a
\* notification are answered with 404.
C19_NotificationsScopedToCaller ==
  [][\A w \in Workers, caller \in Callers :
       NotificationAction(w, caller)
       => /\ NotificationsOfOthers(notifications', caller.userId)
               = NotificationsOfOthers(notifications, caller.userId)
          /\ \A id \in DOMAIN notifications :
               (/\ notifications[id].userId # caller.userId
                /\ \/ MarkNotificationRead(w, caller, id)
                   \/ DeleteNotification(w, caller, id))
               => resp'[w].code = 404]_vars

\* a request for another recipient's notification has been answered with 404
\* and the notification is still unread
C19_Witness ==
  \E w \in Workers, id \in DOMAIN notifications :
    /\ resp[w].route \in {"markNotificationRead", "deleteNotification"}
    /\ resp[w].code = 404
    /\ \A i \in DOMAIN notifications : notifications[i].userId = 1 /\ ~notifications[i].isRead
    /\ Len(notifications) = MaxNotifications

\* a step of a hard delete that answers 409
HardDeleteBlocked(w) ==
  resp'[w].route = "hardDeleteClient" /\ resp'[w].code = 409 /\ resp'[w] # resp[w]

\* the 409 of a count query names the kind that was counted and its count,
\* and every kind counted before it had no referencing document
BlockedByCount(w) ==
  LET id == loc[w].id
      doc == resp'[w].doc
  IN /\ doc.counted /\ doc.count > 0
     /\ \/ pc[w] = "hardDeleteCases" /\ doc.kind = "cases"
           /\ doc.count \in RelatedCasesCounts
        \/ pc[w] = "hardDeleteInvoices" /\ doc.kind = "invoices"
           /\ doc.count = Cardinality(InvoiceRefs(id))
        \/ pc[w] = "hardDeleteAppointments" /\ doc.kind = "appointments"
           /\ doc.count = Cardinality(AppointmentRefs(id))
           /\ InvoiceRefs(id) = {}

\* the delete goes through only when no counted kind references the client
RemovedUnreferenced(w) ==
  HardDeleteRemove(w) => (InvoiceRefs(loc[w].id) = {} /\ AppointmentRefs(loc[w].id) = {})

MaxEntries == 2

\* what a payload carries under timeline or notes: nothing, an entry with
\* its required text, an object without the required text, or a falsy
\* value such as '' or false
EntryPayloads == {"absent", "entry", "blank", "falsy"}

\* if (timeline), if (notes)
Provided(payload) == payload \in {"entry", "blank"}

\* the required description / content of the pushed subdocument
EntryInvalid(payload) == payload = "blank"

PutCaseBodies ==
  [timeline : EntryPayloads, notes : EntryPayloads, status : {""}]
  \cup [timeline : {"absent"}, notes : {"absent"}, status : CaseStatuses]

NoteEntry(content, user) == [content |-> content, createdBy |-> user]

PushedReplacing(entries, payload, entry) == IF Provided(payload) THEN <<entry>> ELSE entries

\* array.push of the entry when the payload provides one
Pushed(entries, payload, entry) ==
  IF Provided(payload) THEN Append(entries, entry) ELSE entries

\* Object.assign(caseData, updateData) and the two pushes
ApplyCaseUpdate(doc, user, body) ==
  [doc EXCEPT !.status = IF body.status = "" THEN @ ELSE body.status,
              !.timeline = Pushed(@, body.timeline, TimelineEntry("Hearing", user)),
              !.notes = Pushed(@, body.notes, NoteEntry("Note", user))]

\* the validation of save()
CaseUpdateInvalid(body) ==
  \/ body.status \notin CaseStatusEnum \cup {""}
  \/ EntryInvalid(body.timeline)
  \/ EntryInvalid(body.notes)

\* PUT /api/cases/:id
PutCase(w, user, id, body) ==
  /\ pc[w] = "idle"
  /\ IF id \notin DOMAIN cases
       THEN /\ resp' = [resp EXCEPT ![w] = Resp("putCase", 404, Null)]
            /\ UNCHANGED cases
       ELSE IF CaseUpdateInvalid(body)
       THEN /\ resp' = [resp EXCEPT ![w] = Resp("putCase", 400, Null)]
            /\ UNCHANGED cases
       ELSE LET doc == ApplyCaseUpdate(cases[id], user, body)
            IN /\ Len(doc.timeline) <= MaxEntries + 1
               /\ Len(doc.notes) <= MaxEntries
               /\ cases' = [cases EXCEPT ![id] = doc]
               /\ resp' = [resp EXCEPT ![w] = Resp("putCase", 200, doc)]
  /\ UNCHANGED <<auxVars, taskVars, userVars, invoiceVars, appointmentVars, clientVars, pc, loc>>

\* case updates after direct creations
NextCasePut ==
  \E w \in SeqWorkers :
    \/ \E user \in Users : CreateCaseDirect(w, user, DeleteCaseBody, 1)
    \/ \E user \in Users, id \in 1..MaxCases, body \in PutCaseBodies :
         PutCase(w, user, id, body)

SpecCasePut == Init /\ [][NextCasePut]_vars

IsPrefix(s, t) == Len(s) <= Len(t) /\ SubSeq(t, 1, Len(s)) = s

\* a successful PUT /api/cases/:id of this step, with the payload it carried
PutCaseOk(w, user, id, body) ==
  PutCase(w, user, id, body) /\ resp'[w].code = 200

\* the array keeps its entries in order and grows by the caller's entry iff
\* grows is true
AppendedIff(old, new, grows, entry) ==
  /\ IsPrefix(old, new)
  /\ IF grows THEN new = Append(old, entry) ELSE new = old

CaseConcBody == [timeline |-> "entry", notes |-> "absent", status |-> ""]

NextCaseConc ==
  \E w \in ConcWorkers :
    \/ \E no \in ClientNos :
         CreateCaseSave(w, "createCase", "u1", CaseBody({}, Undefined, no), "")
    \/ CreateCaseTimeline(w)
    \/ \E id \in 1..MaxCases : PutCase(w, "u2", id, CaseConcBody)

SpecCaseConc == Init /\ [][NextCaseConc]_vars

\* the stored case of a response carries the creation entry of its creator
HasCreationEntry(doc) ==
  \E i \in DOMAIN cases :
    /\ cases[i].clientNo = doc.clientNo
    /\ \E k \in DOMAIN cases[i].timeline :
         cases[i].timeline[k] = TimelineEntry("Case created", doc.createdBy)

\* C22: whenever POST /api/cases has answered 201, the stored case has a
\* timeline entry 'Case created' authored by the caller, whatever other
\* requests ran between the two writes of the handler.
C22_CreatedEntryBeforeResponse ==
  \A w \in ConcWorkers :
    (resp[w].route = "createCase" /\ resp[w].code = 201) => HasCreationEntry(resp[w].doc)

\* a creation has answered 201 for a case that another request updated
\* between the two writes: the update's entry precedes the creation entry
C22_Witness ==
  \E w \in ConcWorkers, i \in DOMAIN cases :
    /\ resp[w].route = "createCase" /\ resp[w].code = 201
    /\ Len(cases[i].timeline) = 2
    /\ cases[i].timeline[1].description = "Hearing"
    /\ cases[i].timeline[2].description = "Case created"

\* the registration stored a user and the client linked to it
BothPersisted ==
  /\ nextUserId' = nextUserId + 1 /\ nextClientId' = nextClientId + 1
  /\ users'[nextUserId].clientId = nextClientId
  /\ clients'[nextClientId].email = users'[nextUserId].email
  /\ clients'[nextClientId].createdBy = nextUserId

NeitherPersisted == users' = users /\ clients' = clients

\* C23: a registration with role client persists both the User and the
\* matching Client (answering 201) or, when it is answered with an error,
\* persists neither, so that the same registration can be retried.
C23_RegisterBothOrNeither ==
  [][\A w \in Workers :
       (resp'[w].route = "register" /\ resp'[w] # resp[w])
       => \A body \in RegisterBodies :
            \/ body.role # "client"
            \/ IF resp'[w].code = 201 THEN BothPersisted ELSE NeitherPersisted
            \/ ~Register(w, body)]_vars

(***************************************************************************)
(* Server startup (index.js): the steps of connectDB and startServer.      *)
(***************************************************************************)
requestVars == <<invoiceVars, appointmentVars, caseVars, clientVars, taskVars,
                 userVars, pc, loc, resp, teamVars, hookVars>>

LastAttemptNever(i) == FALSE

\* if (i === retries - 1)
LastAttempt(i) == i = Retries - 1

\* await mongoose.connect() resolves; the session test changes nothing
\* but the log; connectDB returns
ConnectSucceeds ==
  /\ boot.pc = "connecting"
  /\ \E s \in BOOLEAN :
       boot' = [boot EXCEPT !.pc = "connected", !.connected = TRUE, !.sessions = s]
  /\ UNCHANGED requestVars

\* await mongoose.connect() rejects: exit(1) on the last attempt, else
\* the delay
ConnectFails ==
  /\ boot.pc = "connecting"
  /\ boot' = IF LastAttempt(boot.i)
               THEN [boot EXCEPT !.pc = "exited", !.exit = 1, !.failed = @ + 1]
               ELSE [boot EXCEPT !.pc = "waiting", !.failed = @ + 1]
  /\ UNCHANGED requestVars

\* the delay has passed: i++ and the loop test i < retries; a loop that
\* runs out returns from connectDB
RetryAfterDelay ==
  /\ boot.pc = "waiting"
  /\ boot' = [boot EXCEPT !.waits = @ + 1, !.i = @ + 1,
                          !.pc = IF boot.i + 1 < Retries THEN "connecting" ELSE "connected"]
  /\ UNCHANGED requestVars

\* app.listen(PORT): the server listens, or emits 'error' (port in use)
\* and the handler exits with 1
Listen ==
  /\ boot.pc = "connected"
  /\ \/ boot' = [boot EXCEPT !.pc = "listening"]
     \/ boot' = [boot EXCEPT !.pc = "exited", !.exit = 1]
  /\ UNCHANGED requestVars

\* startup, and task requests once the server listens
NextStartup ==
  \/ ConnectSucceeds
  \/ ConnectFails
  \/ RetryAfterDelay
  \/ Listen
  \/ /\ boot.pc = "listening"
     /\ \E w \in SeqWorkers, user \in Users :
          \/ CreateTask(w, user, TaskBody(""))
          \/ \E id \in 1..MaxTasks : ToggleTask(w, user, id)

BootStep == ConnectSucceeds \/ ConnectFails \/ RetryAfterDelay \/ Listen

\* every await of the startup settles and every timer fires
SpecStartup == Init /\ [][NextStartup]_vars /\ WF_vars(BootStep)

Ended == boot.pc \in {"listening", "exited"}

\* at most 5 attempts, no delay after the last one, and no listening
\* without a connection made by one of the first 5 attempts
AttemptsBounded ==
  /\ boot.i < Retries /\ boot.failed <= Retries
  /\ boot.waits <= Retries - 1 /\ boot.waits <= boot.failed
  /\ boot.pc = "listening" => (boot.connected /\ boot.failed < Retries)
  /\ boot.pc # "exited" => boot.exit = 0
  /\ tasks # <<>> => boot.pc = "listening"

\* C24: startup always ends, and ends in one of two outcomes: listening
\* after one of the first 5 connection attempts succeeded, or exit with a
\* non-zero code after exactly 5 failed attempts; never a 6th attempt, no
\* delay after the last failure, no listening without a connection.
C24_TwoOutcomes ==
  /\ [](AttemptsBounded
        /\ (boot.pc = "exited"
              => (boot.exit # 0 /\ boot.failed = Retries /\ ~boot.connected)))
  /\ <>Ended

\* C24 with the third outcome of startServer: after a successful
\* connection app.listen can fail (port in use) and the process exits
\* with a non-zero code without ever listening.
C24_ThreeOutcomes ==
  /\ [](AttemptsBounded
        /\ (boot.pc = "exited"
              => /\ boot.exit # 0
                 /\ \/ boot.failed = Retries /\ ~boot.connected
                       /\ boot.waits = Retries - 1
                    \/ boot.connected /\ boot.failed < Retries))
  /\ <>Ended

\* the server listens after four failed attempts and four delays, and has
\* served a request
C24_Witness ==
  /\ boot.pc = "listening" /\ boot.failed = Retries - 1 /\ boot.waits = Retries - 1
  /\ tasks # <<>>

(***************************************************************************)
(* Team members (routes/teamMembers.js, the TeamMember schema).  files is  *)
(* the upload directory; a member's image is the file its profileImageUrl  *)
(* names, 0 when it has none.                                              *)
(***************************************************************************)
MaxMembers == 2
MaxFiles == 3

otherVars == <<invoiceVars, appointmentVars, caseVars, clientVars, taskVars, userVars,
               boot, hookVars>>

\* the email of a body: "" is no email field, "bad" fails the match validator
MemberEmails == Emails \cup {"", "bad"}

MemberBodies == [email : MemberEmails, file : BOOLEAN, roleValid : BOOLEAN]

\* the unique index on the member email
MemberEmailTaken(email, except) ==
  \E i \in DOMAIN teamMembers \ {except} : teamMembers[i].email = email

\* multer stores the uploaded file before the handler runs
Uploaded(body) == IF body.file THEN nextFile ELSE 0

Upload(body) ==
  /\ body.file => nextFile <= MaxFiles
  /\ files' = IF body.file THEN files \cup {nextFile} ELSE files
  /\ nextFile' = IF body.file THEN nextFile + 1 ELSE nextFile

\* POST /api/team-members
CreateMember(w, body) ==
  /\ pc[w] = "idle"
  /\ Upload(body)
  /\ IF body.email \in {"", "bad"} \/ ~body.roleValid \/ MemberEmailTaken(body.email, 0)
       THEN /\ resp' = [resp EXCEPT ![w] = Resp("createMember", 400, Null)]
            /\ UNCHANGED <<teamMembers, nextMemberId>>
       ELSE /\ nextMemberId <= MaxMembers
            /\ teamMembers' = [i \in DOMAIN teamMembers \cup {nextMemberId} |->
                                 IF i = nextMemberId
                                   THEN [email |-> body.email, image |-> Uploaded(body)]
                                   ELSE teamMembers[i]]
            /\ nextMemberId' = nextMemberId + 1
            /\ resp' = [resp EXCEPT ![w] = Resp("createMember", 201, Null)]
  /\ UNCHANGED <<otherVars, pc, loc>>

\* PUT /api/team-members/:id up to TeamMember.findById
PutMemberFind(w, id, body) ==
  /\ pc[w] = "idle"
  /\ Upload(body)
  /\ IF ~body.roleValid
       THEN /\ resp' = [resp EXCEPT ![w] = Resp("putMember", 400, Null)]
            /\ UNCHANGED <<pc, loc>>
       ELSE /\ pc' = [pc EXCEPT ![w] = "putMember"]
            /\ loc' = [loc EXCEPT ![w] = [NoLoc EXCEPT
                         !.id = id, !.email = body.email, !.file = Uploaded(body),
                         !.image = IF body.file /\ id \in DOMAIN teamMembers
                                     THEN teamMembers[id].image ELSE 0]]
            /\ resp' = [resp EXCEPT ![w] = NoResp]
  /\ UNCHANGED <<otherVars, teamMembers, nextMemberId>>

\* fs.existsSync and fs.unlinkSync of the image that was read; unlinked
\* is false when unlinkSync throws
Unlinked(image, unlinked) ==
  IF image # 0 /\ image \in files /\ unlinked THEN files \ {image} ELSE files

\* the rest of PUT: the old image is unlinked, then findByIdAndUpdate with
\* runValidators
PutMemberUpdate(w) ==
  /\ pc[w] = "putMember"
  /\ LET id == loc[w].id
         email == loc[w].email
     IN /\ \E unlinked \in BOOLEAN : files' = Unlinked(loc[w].image, unlinked)
        /\ IF email = "bad" \/ (email # "" /\ MemberEmailTaken(email, id))
             THEN /\ resp' = [resp EXCEPT ![w] = Resp("putMember", 400, Null)]
                  /\ UNCHANGED teamMembers
             ELSE IF id \notin DOMAIN teamMembers
             THEN /\ resp' = [resp EXCEPT ![w] = Resp("putMember", 404, Null)]
                  /\ UNCHANGED teamMembers
             ELSE /\ teamMembers' = [teamMembers EXCEPT ![id] =
                        [email |-> IF email = "" THEN @.email ELSE email,
                         image |-> IF loc[w].file # 0 THEN loc[w].file ELSE @.image]]
                  /\ resp' = [resp EXCEPT ![w] = Resp("putMember", 200, Null)]
  /\ pc' = [pc EXCEPT ![w] = "idle"]
  /\ loc' = [loc EXCEPT ![w] = NoLoc]
  /\ UNCHANGED <<otherVars, nextMemberId, nextFile>>

\* DELETE /api/team-members/:id up to TeamMember.findById
DeleteMemberFind(w, id) ==
  /\ pc[w] = "idle"
  /\ IF id \notin DOMAIN teamMembers
       THEN /\ resp' = [resp EXCEPT ![w] = Resp("deleteMember", 404, Null)]
            /\ UNCHANGED <<pc, loc>>
       ELSE /\ pc' = [pc EXCEPT ![w] = "deleteMember"]
            /\ loc' = [loc EXCEPT ![w] = [NoLoc EXCEPT
                         !.id = id, !.image = teamMembers[id].image]]
            /\ resp' = [resp EXCEPT ![w] = NoResp]
  /\ UNCHANGED <<otherVars, teamVars>>

\* the rest of DELETE: unlinkSync, which throws into the catch, then
\* findByIdAndDelete
DeleteMemberRemove(w) ==
  /\ pc[w] = "deleteMember"
  /\ LET id == loc[w].id
         image == loc[w].image
     IN \E unlinked \in BOOLEAN :
          IF image # 0 /\ image \in files /\ ~unlinked
            THEN /\ resp' = [resp EXCEPT ![w] = Resp("deleteMember", 400, Null)]
                 /\ UNCHANGED <<teamMembers, files>>
            ELSE /\ files' = Unlinked(image, TRUE)
                 /\ teamMembers' = [i \in DOMAIN teamMembers \ {id} |-> teamMembers[i]]
                 /\ resp' = [resp EXCEPT ![w] = Resp("deleteMember", 200, Null)]
  /\ pc' = [pc EXCEPT ![w] = "idle"]
  /\ loc' = [loc EXCEPT ![w] = NoLoc]
  /\ UNCHANGED <<otherVars, nextMemberId, nextFile>>

TeamStep(w) ==
  \/ \E body \in MemberBodies : CreateMember(w, body)
  \/ \E id \in 1..MaxMembers, body \in MemberBodies : PutMemberFind(w, id, body)
  \/ PutMemberUpdate(w)
  \/ \E id \in 1..MaxMembers : DeleteMemberFind(w, id)
  \/ DeleteMemberRemove(w)

\* the team-member routes, one request at a time
NextTeam == \E w \in SeqWorkers : TeamStep(w)

SpecTeam == Init /\ [][NextTeam]_vars

\* the team-member routes of concurrent requests
NextTeamConc == \E w \in ConcWorkers : TeamStep(w)

SpecTeamConc == Init /\ [][NextTeamConc]_vars

\* C25: after a successful update that uploads a new image the member's
\* previous image file is gone from storage and the member references the
\* new file; after a successful deletion the member's image file is gone.
C25_OldImageRemoved ==
  [][\A w \in Workers :
       (resp'[w].code = 200 /\ loc[w].id \in DOMAIN teamMembers)
       => LET previous == teamMembers[loc[w].id].image
          IN /\ (pc[w] = "putMember" /\ loc[w].file # 0)
                  => /\ teamMembers'[loc[w].id].image = loc[w].file
                     /\ loc[w].file \in files'
                     /\ previous \notin files'
             /\ pc[w] = "deleteMember" => previous \notin files']_vars

\* C30: an update with a new image that fails at the database step (404
\* or 400) leaves the stored members and the image files they reference
\* as they were.
C30_FailedUpdateKeepsImage ==
  [][\A w \in Workers :
       (pc[w] = "putMember" /\ loc[w].file # 0 /\ resp'[w].code \in {400, 404})
       => /\ teamMembers' = teamMembers
          /\ \A i \in DOMAIN teamMembers :
               teamMembers[i].image \in files => teamMembers[i].image \in files']_vars

(***************************************************************************)
(* The useClients hook (src/hooks/useClients.ts).  hookClients is the      *)
(* clients state of the hook, serverList the list GET /api/clients         *)
(* returns; an entry is a server document or an optimistic temp_ entry.    *)
(* Every call is three steps: the code up to the await, the server         *)
(* handling the request, and the code after the await.                     *)
(***************************************************************************)
MaxServerClients == 2
MaxCalls == 4
MaxRollbacks == 2

serverVars == <<invoiceVars, appointmentVars, caseVars, clientVars, taskVars, userVars,
                pc, loc, resp, boot, teamVars>>

\* Date.now() of the call
HookTimes == {1, 2}

Versions == {0, 1}

Entry(temp, id, v) == [temp |-> temp, id |-> id, v |-> v]

\* prev.map(client => client._id === id ? doc : client)
MapById(list, temp, id, doc) ==
  [i \in DOMAIN list |->
     IF list[i].temp = temp /\ list[i].id = id THEN doc ELSE list[i]]

\* prev.filter(client => client._id !== id)
FilterOut(list, id) ==
  SelectSeq(list, LAMBDA e : ~(e.temp = FALSE /\ e.id = id))

Has(list, id) == \E i \in DOMAIN list : list[i].temp = FALSE /\ list[i].id = id

Begin(c, call) ==
  /\ calls[c].op = "none"
  /\ started < MaxCalls
  /\ started' = started + 1
  /\ calls' = [calls EXCEPT ![c] = call]

\* fetchClients up to the await of axios.get
fetchClients(c) ==
  /\ Begin(c, [NoCall EXCEPT !.op = "fetch", !.phase = "sent"])
  /\ UNCHANGED <<serverVars, hookClients, serverList, nextServerId, rollbacks>>

\* addClient up to the await of axios.post: the optimistic temp_ entry
addClient(c, now) ==
  /\ Begin(c, [NoCall EXCEPT !.op = "add", !.phase = "sent", !.id = now])
  /\ hookClients' = Append(hookClients, Entry(TRUE, now, 0))
  /\ UNCHANGED <<serverVars, serverList, nextServerId, rollbacks>>

\* updateClient up to the await of axios.put: the optimistic edit
updateClient(c, id, v) ==
  /\ Begin(c, [NoCall EXCEPT !.op = "update", !.phase = "sent", !.id = id, !.v = v])
  /\ hookClients' = IF Has(hookClients, id)
                      THEN MapById(hookClients, FALSE, id, Entry(FALSE, id, v))
                      ELSE hookClients
  /\ UNCHANGED <<serverVars, serverList, nextServerId, rollbacks>>

\* deleteClient up to the await of axios.delete: the optimistic removal
deleteClient(c, id) ==
  /\ Begin(c, [NoCall EXCEPT !.op = "delete", !.phase = "sent", !.id = id])
  /\ hookClients' = FilterOut(hookClients, id)
  /\ UNCHANGED <<serverVars, serverList, nextServerId, rollbacks>>

Served(c, ok, id, list) ==
  calls' = [calls EXCEPT ![c] = [@ EXCEPT !.phase = "served", !.ok = ok,
                                          !.id = id, !.list = list]]

\* the server rejects the request, or the request fails on the way
ServerRejects(c) ==
  /\ calls[c].phase = "sent"
  /\ Served(c, FALSE, calls[c].id, <<>>)
  /\ UNCHANGED <<serverVars, hookClients, serverList, nextServerId, rollbacks, started>>

\* the server handles the request and answers with success
ServerAccepts(c) ==
  /\ calls[c].phase = "sent"
  /\ LET call == calls[c]
     IN CASE call.op = "fetch" ->
               /\ Served(c, TRUE, 0, serverList)
               /\ UNCHANGED <<serverList, nextServerId>>
          [] call.op = "add" ->
               /\ nextServerId <= MaxServerClients
               /\ serverList' = Append(serverList, Entry(FALSE, nextServerId, 0))
               /\ nextServerId' = nextServerId + 1
               /\ calls' = [calls EXCEPT ![c] =
                              [@ EXCEPT !.phase = "served", !.ok = TRUE,
                                        !.list = <<Entry(FALSE, nextServerId, 0)>>]]
          [] call.op = "update" ->
               /\ Has(serverList, call.id)
               /\ serverList' = MapById(serverList, FALSE, call.id,
                                        Entry(FALSE, call.id, call.v))
               /\ Served(c, TRUE, call.id, <<Entry(FALSE, call.id, call.v)>>)
               /\ UNCHANGED nextServerId
          [] call.op = "delete" ->
               /\ Has(serverList, call.id)
               /\ serverList' = FilterOut(serverList, call.id)
               /\ Served(c, TRUE, call.id, <<>>)
               /\ UNCHANGED nextServerId
  /\ UNCHANGED <<serverVars, hookClients, rollbacks, started>>

\* the code after the await of a call that succeeded
Resolved(c) ==
  /\ calls[c].phase = "served" /\ calls[c].ok
  /\ LET call == calls[c]
     IN /\ hookClients' =
             CASE call.op = "fetch" -> call.list
               [] call.op = "add" -> MapById(hookClients, TRUE, call.id, call.list[1])
               [] call.op = "update" -> MapById(hookClients, FALSE, call.id, call.list[1])
               [] call.op = "delete" -> hookClients
        /\ rollbacks' = IF call.rollback /\ rollbacks < MaxRollbacks
                          THEN rollbacks + 1 ELSE rollbacks
  /\ calls' = [calls EXCEPT ![c] = NoCall]
  /\ UNCHANGED <<serverVars, serverList, nextServerId, started>>

\* the catch of a call that failed: add, update and delete start the
\* rollback fetchClients(); fetchClients only records the error
Rejected(c) ==
  /\ calls[c].phase = "served" /\ ~calls[c].ok
  /\ calls' = [calls EXCEPT ![c] =
                 IF calls[c].op = "fetch" THEN NoCall
                 ELSE [NoCall EXCEPT !.op = "fetch", !.phase = "sent", !.rollback = TRUE]]
  /\ UNCHANGED <<serverVars, hookClients, serverList, nextServerId, rollbacks, started>>

NextHook ==
  \E c \in Calls :
    \/ fetchClients(c)
    \/ \E now \in HookTimes : addClient(c, now)
    \/ \E id \in 1..MaxServerClients, v \in Versions : updateClient(c, id, v)
    \/ \E id \in 1..MaxServerClients : deleteClient(c, id)
    \/ ServerRejects(c)
    \/ ServerAccepts(c)
    \/ Resolved(c)
    \/ Rejected(c)

SpecHook == Init /\ [][NextHook]_vars

Entries(list) == {list[i] : i \in DOMAIN list}

Quiescent == \A c \in Calls : calls[c].op = "none"

\* C26: once a rollback re-fetch has run and no call of the hook is in
\* flight any more, the clients snapshot equals the server's client list,
\* whatever the order in which the calls completed.
C26_RollbackRestoresServerList ==
  (Quiescent /\ rollbacks > 0) => Entries(hookClients) = Entries(serverList)

\* invoice creations and deletions, one request at a time
MaxSeqInvoices == 3

NextInvoiceSeq ==
  \E w \in SeqWorkers :
    \/ \E body \in {InvoiceBody(JNum(1)), InvoiceBody(JNum(-1))} :
         CreateInvoiceCount(w, body, MaxSeqInvoices)
    \/ CreateInvoiceSave(w)
    \/ \E id \in InvoiceIds(MaxSeqInvoices) : DeleteInvoice(w, id)
    \/ \E id \in InvoiceIds(MaxSeqInvoices) : MarkInvoiceViewed(w, id)

SpecInvoiceSeq == Init /\ [][NextInvoiceSeq]_vars

\* C27: without concurrent requests every create-invoice request with
\* valid data is answered 201 and stores a number that no stored invoice
\* carried, after any earlier creations and deletions.
C27_CreateAfterDeleteSucceeds ==
  [][\A w \in SeqWorkers :
       CreateInvoiceSave(w)
       => (resp'[w].code = 201 /\ ~InvoiceNoTaken(InvoiceNo(loc[w].count)))]_vars

(***************************************************************************)
(* The read routes of the task router (routes/tasks.js).                   *)
(***************************************************************************)
\* Task.find({ userId })
TasksOf(user) == SelectSeq(tasks, LAMBDA t : t.userId = user)

\* GET /api/tasks
GetTasks(w, user) ==
  /\ pc[w] = "idle"
  /\ resp' = [resp EXCEPT ![w] = Resp("getTasks", 200, TasksOf(user))]
  /\ UNCHANGED <<auxVars, taskVars, userVars, invoiceVars, appointmentVars, caseVars,
                 clientVars, pc, loc>>

\* GET /api/tasks/:id
GetTask(w, user, id) ==
  /\ pc[w] = "idle"
  /\ resp' = [resp EXCEPT ![w] =
                IF id \in DOMAIN tasks THEN Resp("getTask", 200, tasks[id])
                ELSE Resp("getTask", 404, Null)]
  /\ UNCHANGED <<auxVars, taskVars, userVars, invoiceVars, appointmentVars, caseVars,
                 clientVars, pc, loc>>

\* task creations, toggles and reads
NextTaskRead ==
  \E w \in SeqWorkers, user \in Users :
    \/ CreateTask(w, user, TaskBody(""))
    \/ \E id \in 1..MaxTasks : ToggleTask(w, user, id)
    \/ GetTasks(w, user)
    \/ \E id \in 1..MaxTasks : GetTask(w, user, id)

SpecTaskRead == Init /\ [][NextTaskRead]_vars

\* C28: GET /api/tasks answers with exactly the caller's tasks, and
\* GET /api/tasks/:id answers with a task only to its owner.
C28_TasksOnlyToOwner ==
  [][\A w \in SeqWorkers, user \in Users :
       /\ GetTasks(w, user)
            => \A i \in DOMAIN resp'[w].doc : resp'[w].doc[i].userId = user
       /\ \A id \in 1..MaxTasks :
            (GetTask(w, user, id) /\ resp'[w].code = 200) => tasks[id].userId = user]_vars

\* clients created with notification settings, registrations and logins
WelcomeClientBodies == [email : Emails, notificationSettings : {TRUE}, cases : {0}]

NextWelcome ==
  \E w \in SeqWorkers :
    \/ \E body \in RegisterBodies : Register(w, body)
    \/ \E email \in Emails : Login(w, email, "secret")
    \/ \E body \in WelcomeClientBodies : CreateClientSave(w, 1, body)
    \/ CreateClientNotify(w)
    \/ \E id \in 1..MaxClients, body \in LoginClientUpdates : UpdateClient(w, id, body)

SpecWelcome == Init /\ [][NextWelcome]_vars

\* Notification.find({ userId, userType }) of GET /api/notifications
NotificationsOf(caller) ==
  SelectSeq(notifications,
            LAMBDA n : n.userId = caller.userId /\ n.userType = UserType(caller))

\* the sessions of client accounts that a login has answered
ClientSessions ==
  {resp[w].doc.token : w \in {v \in Workers : /\ resp[v].route = "login"
                                              /\ resp[v].code = 200
                                              /\ resp[v].doc.token.role = "client"}}

\* C29: the welcome notification of a client appears in the notification
\* list of the user account linked to that client: its recipient id and
\* kind match the userId and role of that account's token.
C29_WelcomeDelivered ==
  \A token \in ClientSessions :
    \A i \in DOMAIN notifications :
      notifications[i] = WelcomeNotification(token.clientId)
      => \E k \in DOMAIN NotificationsOf(token) :
           NotificationsOf(token)[k] = notifications[i]
====
